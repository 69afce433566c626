------------------------------ MODULE ClientDB ------------------------------
(***************************************************************************)
(* The databases of a client machine: packages.json, servers.json,         *)
(* repos.json and installed.json, which every dlr command reads when it    *)
(* starts and writes back whole, one file after another, and of which the  *)
(* client TUI keeps a copy of its own while it runs commands as further    *)
(* objects in the same process.                                            *)
(*                                                                         *)
(* A package row is where the package comes from: a server, a repository,  *)
(* or nowhere any more, once it has been installed.                        *)
(***************************************************************************)
EXTENDS Naturals, Sequences, FiniteSets

CONSTANTS
  Names,        \* package names
  Servers,      \* servers on the LAN
  Repos,        \* HTTP repositories
  Clients,      \* Client objects, of dlr commands or of a TUI
  Tuis,         \* TuiApp objects
  Concurrency,  \* how many processes run at a time; the properties are for 1
  Cmds,         \* what dlr is asked to do
  Picks,        \* what is done in a TUI
  Faults,       \* {"kill"} or {}
  MaxRounds,    \* bound: how many commands, picks included
  None,         \* no row, no owner, no argument
  Nowhere       \* a row without origin

Objects == Clients \cup Tuis
Sources == Servers \cup Repos
Origins == Sources \cup {None, Nowhere}
Files == <<"pkgs", "srvs", "repos", "inst">>

ASSUME NamesAssumption ==
  /\ Clients \cap Tuis = {} /\ Servers \cap Repos = {}
  /\ None \notin Objects \cup Sources \cup Names
  /\ Nowhere \notin Sources /\ None # Nowhere
  /\ IsFiniteSet(Objects)
  /\ Names \cap Repos = {}   \* arg and did hold either
ASSUME CmdsAssumption ==
  /\ Cmds \subseteq {"scan", "install", "download", "addrepo", "removerepo"}
  /\ MaxRounds \in Nat /\ Concurrency \in Nat

VARIABLES
  file,    \* the four files
  mem,     \* the four maps of each LocalDB
  steps,   \* what each object still has to do, <<>> when it does not exist
  at,      \* the file it reads or writes next
  todo,    \* the servers or repositories it has still to ask
  arg,     \* the package or repository of its command
  caller,  \* the TUI a Client object belongs to
  offers,  \* what servers and repositories offer now
  rounds,  \* how many commands there have been
  whole,   \* history: no process was killed
  seen,    \* history: what each server offered when dlr scan last asked it,
           \* or a TUI's scan since
  reached, \* history: the servers that answered the last scan
  scanner, \* history: what made it, "dlr" or "tui"
  did      \* history: what was installed or added, and not taken out again

vars == <<file, mem, steps, at, todo, arg, caller, offers, rounds,
          whole, seen, reached, scanner, did>>

Empty == [pkgs |-> [n \in Names |-> None], srvs |-> {}, repos |-> {}, inst |-> {}]

Init ==
  /\ file = Empty
  /\ mem = [o \in Objects |-> Empty]
  /\ steps = [o \in Objects |-> <<>>]
  /\ at = [o \in Objects |-> 1]
  /\ todo = [o \in Objects |-> {}]
  /\ arg = [o \in Objects |-> None]
  /\ caller = [o \in Objects |-> None]
  /\ offers \in [Sources -> SUBSET Names]
  /\ rounds = 0
  /\ whole = TRUE
  /\ seen = [s \in Servers |-> {}]
  /\ reached = {}
  /\ scanner = "dlr"
  /\ did = {}

(* A process is a TUI, or a Client that no TUI called. *)
Processes == {o \in Objects : steps[o] # <<>> /\ caller[o] = None}

Idle(o) == steps[o] \in {<<>>, <<"menu">>}
Quiescent == \A o \in Objects : Idle(o)

At(o, l) == steps[o] # <<>> /\ Head(steps[o]) = l

(* o goes on with q, and then with what it had to do anyway. *)
Then(o, q) == steps' = [steps EXCEPT ![o] = q \o Tail(@)]

Over(new, old) == [n \in Names |-> IF new[n] # None THEN new[n] ELSE old[n]]

-----------------------------------------------------------------------------
(* LocalDB.                                                                *)

Advance(o, more) ==
  IF at[o] = Len(Files)
    THEN Then(o, <<>>) /\ at' = [at EXCEPT ![o] = 1]
    ELSE Then(o, <<more>>) /\ at' = [at EXCEPT ![o] = @ + 1]

(* load, file by file: rows are added or replaced, none is forgotten.      *)
Load(o) ==
  LET f == Files[at[o]] IN
  /\ At(o, "load")
  /\ mem' = [mem EXCEPT ![o][f] =
               IF f = "pkgs" THEN Over(file[f], @) ELSE @ \cup file[f]]
  /\ Advance(o, "load")
  /\ UNCHANGED <<file, todo, arg, caller, offers, rounds, whole,
                 seen, reached, scanner, did>>

(* save, file by file: opening truncates, and a file that was not written  *)
(* to the end does not parse: load takes nothing from it ...               *)
SaveOpens(o) ==
  /\ At(o, "save")
  /\ file' = [file EXCEPT ![Files[at[o]]] = Empty[Files[at[o]]]]
  /\ Then(o, <<"write">>)
  /\ UNCHANGED <<mem, at, todo, arg, caller, offers, rounds, whole,
                 seen, reached, scanner, did>>

(* ... and the whole map is written. *)
SaveWrites(o) ==
  /\ At(o, "write")
  /\ file' = [file EXCEPT ![Files[at[o]]] = mem[o][Files[at[o]]]]
  /\ Advance(o, "save")
  /\ UNCHANGED <<mem, todo, arg, caller, offers, rounds, whole,
                 seen, reached, scanner, did>>

(* upsert_package for what a source offers, upsert_server, upsert_repo,     *)
(* mark_installed.                                                         *)
Upsert(m, s) ==
  [m EXCEPT !.pkgs = [n \in Names |-> IF n \in offers[s] THEN s ELSE @[n]]]

Knows(m, s) == [m EXCEPT !.srvs = @ \cup {s}]

Adds(m, r) == [Upsert(m, r) EXCEPT !.repos = m.repos \cup {r}]

Marks(m, n) == [m EXCEPT !.inst = @ \cup {n}, !.pkgs[n] = Nowhere]

(* A mutant: the rows of a server stay when it is asked again. *)
DropsNothing(m, s) == m

(* remove_packages_from_server *)
Drops(m, s) ==
  [m EXCEPT !.pkgs = [n \in Names |-> IF @[n] = s THEN None ELSE @[n]]]

-----------------------------------------------------------------------------
(* Client: one object per command.                                         *)

Arguments(k) ==
  IF k \in {"install", "download", "untrack"} THEN Names
  ELSE IF k \in {"addrepo", "removerepo"} THEN Repos
  ELSE {None}

(* One more command. *)
Begins == rounds < MaxRounds /\ rounds' = rounds + 1

(* The constructor's load, then the command. *)
Life(k) == <<"load", k, "end">>

(* main: dlr runs a command of its own. *)
Command(c) ==
  /\ steps[c] = <<>> /\ Cardinality(Processes) < Concurrency
  /\ Begins
  /\ \E k \in Cmds : \E a \in Arguments(k) :
       /\ steps' = [steps EXCEPT ![c] = Life(k)]
       /\ arg' = [arg EXCEPT ![c] = a]
  /\ UNCHANGED <<file, mem, at, todo, caller, offers, whole, seen, reached, scanner, did>>

(* The command is over and its LocalDB gone; a TUI that called it goes on. *)
Ends(c) ==
  /\ At(c, "end")
  /\ mem' = [mem EXCEPT ![c] = Empty]
  /\ arg' = [arg EXCEPT ![c] = None]
  /\ caller' = [caller EXCEPT ![c] = None]
  /\ steps' = [o \in Objects |-> IF o = c THEN <<>>
                                 ELSE IF o = caller[c] THEN Tail(steps[o])
                                 ELSE steps[o]]
  /\ UNCHANGED <<file, at, todo, offers, rounds, whole, seen, reached, scanner, did>>

(* A mutant: the scan does not save before it turns to the repositories. *)
DiscoversUnsaved(c) ==
  /\ At(c, "scan")
  /\ \E S \in SUBSET Servers :
       /\ todo' = [todo EXCEPT ![c] = S]
       /\ Then(c, IF S = {} THEN <<"repos">> ELSE <<"servers", "repos">>)
       /\ reached' = IF S = {} THEN reached ELSE {}
       /\ scanner' = IF S = {} THEN scanner
                     ELSE IF caller[c] = None THEN "dlr" ELSE "tui"
  /\ UNCHANGED <<file, mem, at, arg, caller, offers, rounds, whole, seen, did>>

(* cmd_scan: servers that answered the broadcast are asked one by one.     *)
(* Nothing is written when there is none.                                  *)
Discovers(c) ==
  /\ At(c, "scan")
  /\ \E S \in SUBSET Servers :
       /\ todo' = [todo EXCEPT ![c] = S]
       /\ Then(c, IF S = {} THEN <<"repos">> ELSE <<"servers", "save", "repos">>)
       /\ reached' = IF S = {} THEN reached ELSE {}
       /\ scanner' = IF S = {} THEN scanner
                     ELSE IF caller[c] = None THEN "dlr" ELSE "tui"
  /\ UNCHANGED <<file, mem, at, arg, caller, offers, rounds, whole, seen, did>>

(* The rows of a server go first; it may then not be reached, or give no   *)
(* list, or give it.                                                       *)
AsksServer(c) ==
  /\ At(c, "servers")
  /\ \E s \in todo[c] :
       LET before == IF caller[c] = None THEN {} ELSE seen[s] IN
       /\ todo' = [todo EXCEPT ![c] = @ \ {s}]
       /\ \/ /\ \/ mem' = [mem EXCEPT ![c] = Drops(@, s)]
                \/ mem' = [mem EXCEPT ![c] = Knows(Drops(@, s), s)]
             /\ seen' = [seen EXCEPT ![s] = before]
             /\ UNCHANGED reached
          \/ /\ mem' = [mem EXCEPT ![c] = Knows(Upsert(Drops(@, s), s), s)]
             /\ seen' = [seen EXCEPT ![s] = before \cup offers[s]]
             /\ reached' = reached \cup {s}
  /\ UNCHANGED <<file, steps, at, arg, caller, offers, rounds, whole, scanner, did>>

Asked(o) ==
  /\ \E l \in {"servers", "fetch"} : At(o, l)
  /\ todo[o] = {}
  /\ Then(o, <<>>)
  /\ UNCHANGED <<file, mem, at, todo, arg, caller, offers, rounds, whole,
                 seen, reached, scanner, did>>

(* scan_repos of the client, and the same loop in the TUI's do_scan.       *)
ListsRepos(o) ==
  /\ At(o, "repos")
  /\ todo' = [todo EXCEPT ![o] = mem[o].repos]
  /\ Then(o, IF mem[o].repos = {} THEN <<>> ELSE <<"fetch", "save">>)
  /\ UNCHANGED <<file, mem, at, arg, caller, offers, rounds, whole,
                 seen, reached, scanner, did>>

FetchesIndex(o) ==
  /\ At(o, "fetch")
  /\ \E r \in todo[o] :
       /\ todo' = [todo EXCEPT ![o] = @ \ {r}]
       /\ \/ UNCHANGED mem
          \/ mem' = [mem EXCEPT ![o] = Upsert(@, r)]
  /\ UNCHANGED <<file, steps, at, arg, caller, offers, rounds, whole,
                 seen, reached, scanner, did>>

(* cmd_addrepo: a known name is refused, an index that cannot be fetched   *)
(* too.                                                                    *)
AddsRepo(c) ==
  /\ At(c, "addrepo")
  /\ \/ Then(c, <<>>) /\ UNCHANGED <<mem, did>>
     \/ /\ arg[c] \notin mem[c].repos
        /\ mem' = [mem EXCEPT ![c] = Adds(@, arg[c])]
        /\ did' = did \cup {arg[c]}
        /\ Then(c, <<"save">>)
  /\ UNCHANGED <<file, at, todo, arg, caller, offers, rounds, whole,
                 seen, reached, scanner>>

(* cmd_removerepo: the repository goes, its rows stay. *)
RemovesRepo(c) ==
  /\ At(c, "removerepo")
  /\ IF arg[c] \in mem[c].repos
       THEN /\ mem' = [mem EXCEPT ![c].repos = @ \ {arg[c]}]
            /\ did' = did \ {arg[c]}
            /\ Then(c, <<"save">>)
       ELSE Then(c, <<>>) /\ UNCHANGED <<mem, did>>
  /\ UNCHANGED <<file, at, todo, arg, caller, offers, rounds, whole,
                 seen, reached, scanner>>

(* A mutant: any row is taken for one with a source. *)
LocatedAnywhere(c) == mem[c].pkgs[arg[c]] # None

(* The server of the row, when it is known; no discovery is needed then,   *)
(* nor for a row of a repository.                                          *)
Located(c) == mem[c].pkgs[arg[c]] \in Repos \cup mem[c].srvs

(* Both commands download, install goes on after that. *)
Get(k) == IF k = "install" THEN "get_install" ELSE "get_download"

(* find_server_for_package: a server that answers is recorded at once. *)
FindsServer(c, k) ==
  /\ ~Located(c)
  /\ \E s \in Servers :
       /\ mem' = [mem EXCEPT ![c] = Knows(@, s)]
       /\ todo' = [todo EXCEPT ![c] = {s}]
  /\ Then(c, <<"save", Get(k)>>)

(* cmd_install and cmd_download: nothing is done for an installed package  *)
(* or when no server answers.                                              *)
Looks(c) ==
  /\ \E k \in {"install", "download"} :
       /\ At(c, k)
       /\ \/ /\ \/ k = "install" /\ arg[c] \in mem[c].inst
                \/ ~Located(c)
             /\ Then(c, <<>>)
             /\ UNCHANGED <<mem, todo>>
          \/ /\ k = "install" => arg[c] \notin mem[c].inst
             /\ \/ /\ Located(c)
                   /\ todo' = [todo EXCEPT ![c] = {mem[c].pkgs[arg[c]]}]
                   /\ Then(c, <<Get(k)>>)
                   /\ UNCHANGED mem
                \/ FindsServer(c, k)
  /\ UNCHANGED <<file, at, arg, caller, offers, rounds, whole,
                 seen, reached, scanner, did>>

(* The download, and install_tar up to the registration: either may fail,  *)
(* and does if the source does not have the package.                       *)
Gets(c) ==
  /\ todo' = [todo EXCEPT ![c] = {}]
  /\ \/ /\ At(c, "get_install") \/ At(c, "get_download")
        /\ Then(c, <<>>)
        /\ UNCHANGED <<mem, did>>
     \/ /\ At(c, "get_install")
        /\ \E s \in todo[c] : arg[c] \in offers[s]
        /\ mem' = [mem EXCEPT ![c] = Marks(@, arg[c])]
        /\ did' = did \cup {arg[c]}
        /\ Then(c, <<"save">>)
  /\ UNCHANGED <<file, at, arg, caller, offers, rounds, whole, seen, reached, scanner>>

ClientStep(c) ==
  \/ Command(c) \/ Ends(c) \/ Discovers(c) \/ AsksServer(c)
  \/ AddsRepo(c) \/ RemovesRepo(c) \/ Looks(c) \/ Gets(c)

-----------------------------------------------------------------------------
(* TuiApp.                                                                 *)

Opens(t) ==
  /\ steps[t] = <<>> /\ Cardinality(Processes) < Concurrency
  /\ Begins
  /\ steps' = [steps EXCEPT ![t] = <<"load", "load", "menu">>]
  /\ UNCHANGED <<file, mem, at, todo, arg, caller, offers, whole, seen, reached, scanner, did>>

(* A mutant: the TUI does not read the files again after an install. *)
AfterUnread(k) ==
  IF k = "scan" THEN <<"calls", "repos", "load", "menu">> ELSE <<"calls", "menu">>

(* A Client object runs the command. Afterwards the TUI indexes the        *)
(* repositories itself and reads the files, or reads them, or neither.     *)
After(k) ==
  IF k = "scan" THEN <<"calls", "repos", "load", "menu">>
  ELSE IF k = "install" THEN <<"calls", "load", "menu">>
  ELSE <<"calls", "menu">>

Calls(t) ==
  /\ steps[t] = <<"menu">>
  /\ Begins
  /\ \E k \in Picks \cap {"scan", "install", "download"}, c \in Clients :
     \E a \in Arguments(k) :
       /\ steps[c] = <<>>
       /\ a \in Names => mem[t].pkgs[a] # None
       /\ steps' = [steps EXCEPT ![c] = Life(k), ![t] = After(k)]
       /\ arg' = [arg EXCEPT ![c] = a]
       /\ caller' = [caller EXCEPT ![c] = t]
  /\ UNCHANGED <<file, mem, at, todo, offers, whole, seen, reached, scanner, did>>

(* do_add_repo (no check, no fetch), do_remove_repo, do_untrack_selected:  *)
(* on the TUI's own copy, which is then saved.                             *)
Edits(t) ==
  /\ steps[t] = <<"menu">>
  /\ Begins
  /\ \/ \E r \in Repos :
        /\ "addrepo" \in Picks
        /\ mem' = [mem EXCEPT ![t].repos = @ \cup {r}]
        /\ did' = did \cup {r}
        /\ steps' = [steps EXCEPT ![t] = <<"save", "menu">>]
     \/ \E r \in mem[t].repos :
        /\ "removerepo" \in Picks
        /\ mem' = [mem EXCEPT ![t].repos = @ \ {r}]
        /\ did' = did \ {r}
        /\ steps' = [steps EXCEPT ![t] = <<"save", "menu">>]
     \/ \E n \in mem[t].inst :
        /\ "untrack" \in Picks
        /\ mem' = [mem EXCEPT ![t].inst = @ \ {n}]
        /\ did' = did \ {n}
        /\ steps' = [steps EXCEPT ![t] = <<"save", "load", "menu">>]
  /\ UNCHANGED <<file, at, todo, arg, caller, offers, whole, seen, reached, scanner>>

Quits(t) ==
  /\ steps[t] = <<"menu">>
  /\ steps' = [steps EXCEPT ![t] = <<>>]
  /\ mem' = [mem EXCEPT ![t] = Empty]
  /\ UNCHANGED <<file, at, todo, arg, caller, offers, rounds, whole,
                 seen, reached, scanner, did>>

TuiStep(t) == Opens(t) \/ Calls(t) \/ Edits(t) \/ Quits(t)

-----------------------------------------------------------------------------
(* The rest of the world.                                                  *)

(* A package appears on a source, or goes. *)
Publishes ==
  /\ \E s \in Sources : \E S \in SUBSET Names :
       S # offers[s] /\ offers' = [offers EXCEPT ![s] = S]
  /\ UNCHANGED <<file, mem, steps, at, todo, arg, caller, rounds, whole,
                 seen, reached, scanner, did>>

(* A process is killed, with the Client objects in it: what it had not     *)
(* written is lost.                                                        *)
Killed(p) ==
  LET dead == {o \in Objects : p \in {o, caller[o]}} IN
  /\ "kill" \in Faults /\ p \in Processes
  /\ mem' = [o \in Objects |-> IF o \in dead THEN Empty ELSE mem[o]]
  /\ steps' = [o \in Objects |-> IF o \in dead THEN <<>> ELSE steps[o]]
  /\ at' = [o \in Objects |-> IF o \in dead THEN 1 ELSE at[o]]
  /\ todo' = [o \in Objects |-> IF o \in dead THEN {} ELSE todo[o]]
  /\ arg' = [o \in Objects |-> IF o \in dead THEN None ELSE arg[o]]
  /\ caller' = [o \in Objects |-> IF o \in dead THEN None ELSE caller[o]]
  /\ whole' = FALSE
  /\ reached' = {}
  /\ UNCHANGED <<file, offers, rounds, seen, scanner, did>>

ObjectStep(o) ==
  Load(o) \/ SaveOpens(o) \/ SaveWrites(o) \/ Asked(o) \/ ListsRepos(o) \/ FetchesIndex(o)

Next ==
  \/ \E o \in Objects : ObjectStep(o) \/ Killed(o)
  \/ \E c \in Clients : ClientStep(c)
  \/ \E t \in Tuis : TuiStep(t)
  \/ Publishes

Spec == Init /\ [][Next]_vars

-----------------------------------------------------------------------------

(* What an object may have to do. *)
ClientSteps == {"load", "save", "write", "scan", "servers", "repos", "fetch",
                "addrepo", "removerepo", "install", "download", "get_install",
                "get_download", "end"}
TuiSteps == {"load", "save", "write", "calls", "repos", "fetch", "menu"}

Databases == [pkgs : [Names -> Origins], srvs : SUBSET Servers,
              repos : SUBSET Repos, inst : SUBSET Names]

TypeOK ==
  /\ file \in Databases
  /\ mem \in [Objects -> Databases]
  /\ steps \in [Objects -> Seq(ClientSteps \cup TuiSteps)]
  /\ at \in [Objects -> 1..Len(Files)]
  /\ todo \in [Objects -> SUBSET Sources]
  /\ arg \in [Objects -> Names \cup Repos \cup {None}]
  /\ caller \in [Objects -> Tuis \cup {None}]
  /\ offers \in [Sources -> SUBSET Names]
  /\ rounds \in 0..MaxRounds
  /\ whole \in BOOLEAN
  /\ seen \in [Servers -> SUBSET Names]
  /\ reached \subseteq Servers
  /\ scanner \in {"dlr", "tui"}
  /\ did \subseteq Names \cup Repos

(* The inductive invariant behind DeedsAreStored.                          *)

(* A command ends, a TUI comes back to its menu; the argument is of the    *)
(* kind the command wants.                                                 *)
StepsInv == \A o \in Objects :
  /\ \A i \in 1..Len(steps[o]) :
       /\ steps[o][i] \in (IF o \in Tuis THEN TuiSteps ELSE ClientSteps)
       /\ steps[o][i] \in {"end", "menu"} <=> i = Len(steps[o])
       /\ steps[o][i] \in {"install", "download", "get_install", "get_download"}
            => arg[o] \in Names
       /\ steps[o][i] \in {"addrepo", "removerepo"} => arg[o] \in Repos
       /\ steps[o][i] = "servers" => i = 1 /\ todo[o] \subseteq Servers
  /\ \/ at[o] = 1
     \/ steps[o] # <<>> /\ steps[o][1] \in {"load", "save", "write"}
  /\ steps[o] = <<>> => mem[o] = Empty /\ caller[o] = None

(* A TUI waits for the one Client object it called. If that one installs,  *)
(* the TUI reads the files afterwards.                                     *)
CallInv ==
  /\ \A o \in Objects : caller[o] # None =>
       /\ o \in Clients
       /\ steps[caller[o]] # <<>> /\ steps[caller[o]][1] = "calls"
       /\ \A i \in 1..Len(steps[o]) :
            /\ steps[o][i] \notin {"addrepo", "removerepo"}
            /\ steps[o][i] \in {"install", "get_install"} =>
                 steps[caller[o]][2] = "load"
  /\ \A o, p \in Objects : caller[o] = caller[p] /\ caller[o] # None => o = p

(* What runs is one process. *)
OneRuns == \A o, p \in Objects :
  steps[o] # <<>> /\ steps[p] # <<>> => o = p \/ caller[o] = p \/ caller[p] = o

(* The deeds of file f, that is 3 or 4. *)
Deeds(f) == IF f = 3 THEN did \cap Repos ELSE did \cap Names

(* o has still to read what others did. *)
Behind(o, f) ==
  \/ steps[o][1] = "load" /\ at[o] <= f
  \/ steps[o][1] = "calls" /\ steps[o][2] = "load"

(* What an object has in memory was done, and it has all that was done.    *)
MemInv == \A o \in Objects, f \in {3, 4} :
  whole /\ steps[o] # <<>> =>
    /\ mem[o][Files[f]] \subseteq Deeds(f)
    /\ Behind(o, f) \/ mem[o][Files[f]] = Deeds(f)

(* o has still to write file f. *)
Owes(o, f) == steps[o] # <<>> /\ steps[o][1] \in {"save", "write"} /\ at[o] <= f

FileInv == \A f \in {3, 4} :
  whole => file[Files[f]] = Deeds(f) \/ \E o \in Objects : Owes(o, f)

(* The types, who waits for whom, and where the deeds are kept while they  *)
(* are not in the files yet.                                               *)
Inv == TypeOK /\ StepsInv /\ CallInv /\ OneRuns /\ MemInv /\ FileInv

(* The rest is claimed when nothing is under way. *)
Settled == whole /\ Quiescent

(* What was installed or added, and not untracked or removed, is exactly   *)
(* what installed.json and repos.json name, whichever commands came in     *)
(* between and whichever copy they were made on (LocalDB::save writes all  *)
(* four files from one object's memory; load never forgets).               *)
DeedsAreStored == Settled => file.inst \cup file.repos = did

Listed(s) == s \in file.srvs /\ \A n \in seen[s] : file.pkgs[n] # None

(* README.md:122, scan "downloads its package list into the local DB": a   *)
(* server that answered the last scan is in servers.json, and every        *)
(* package it offered has a row.                                           *)
EveryScanIsStored == Quiescent => \A s \in reached : Listed(s)

(* That is so if dlr made the scan, though earlier processes may have been *)
(* killed while they saved, and a TUI may have saved its copy since.       *)
ScanIsStored == Quiescent /\ scanner = "dlr" => \A s \in reached : Listed(s)

(* cmd_scan drops a server's rows before it adds those on its list: a row  *)
(* of a server is one it offered in the last dlr scan that asked it, or in *)
(* a TUI since.                                                            *)
NoGhostRows ==
  Settled => \A n \in Names : file.pkgs[n] \in Servers => n \in seen[file.pkgs[n]]

=============================================================================
