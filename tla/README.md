# Deliver in TLA+

TLA+ modules, TLC runs and TLAPS proofs about Deliver, a LAN package manager:
a daemon (`dlr_server`) that serves package archives over TCP and announces
itself over UDP, and a client (`dlr`, with a TUI) that discovers servers,
searches, downloads, verifies and installs. Paths below are relative to the
repository.

## The system

| component | source | state | operations |
|---|---|---|---|
| daemon life cycle | `src/server.cpp`, `src/server_main.cpp` | `running_`, two sockets, two threads | `start`, `stop`, `proc_hello`, `proc_accept`, signal handler |
| client handlers | `src/server.cpp` | one detached thread per connection: session key, open archive, position | handshake, `authenticate`, install / search / list / ping |
| package registry | `src/package_registry.cpp` | `packages_` under `mtx_`, `registry.json`, `<pkg>/`, `<pkg>.tar` | present, attach, generate, remove, clear, find, search, `build_tar`, `load`, `save` |
| tar | `src/tar.cpp` | the archive file | `create`, `extract`, `list` by an external program |
| framing | `src/network.cpp` | sockets | `send_frame`, `recv_frame`, `connect_to` |
| discovery | `src/network.cpp` | hello datagrams, list of servers found | `broadcast_hello`, `discover_servers`, `probe_server` |
| client download | `src/client.cpp` | one connection, output file, expected checksum | `connect_and_handshake`, `download_from_server` |
| client commands | `src/client.cpp`, `src/client_main.cpp` | the database, the shared cache directory | scan, search, install, download, remove, update, addserver, addrepo |
| client database | `src/local_db.cpp` | `servers_`, `packages_`, `repos_`, `installed_` and one JSON file each | `load`, `save`, upserts and removals |
| manifests, versions | `src/pkg_parser.cpp` | none | parse, write, `compare_versions`, `satisfies` |
| HTTP repositories | `src/http_repo.cpp` | none | fetch index, fetch file |
| client TUI | `src/tui_app.cpp` | screen, lists, selection, background scan and search | key handlers |
| server TUI | `src/server_tui.cpp` | screen, lists, its own registry copy | key handlers, edits of manifests |
| configuration, logger, installers | `src/config.cpp`, `src/logger.cpp`, `install*.sh` | files | read once, append |

How they interact: client and handler exchange length-prefixed frames over one
TCP connection; handlers of one daemon share the registry object (memory, under
`mtx_`) and the archive file (outside it); the daemon, the server TUI and every
`dlr present...` command are separate processes with their own copy of
`registry.json`; client commands and the client TUI are separate processes
that share the database files and the cache directory.

What is hard: threads of the daemon interleave on a shared archive file;
connections are cut at any frame; the client acts on database rows that may be
stale; whole-file saves of several processes overwrite each other; an operator's
process copies or removes the files of a package one by one while the daemon
lists and packs them; nothing looks at what `tar` did; nothing has a receive
timeout; a send to a closed connection raises SIGPIPE; `stop` joins a thread
that sits in `accept`.

For each component, what would make it correct: a daemon that announces itself,
serves whoever connects and stops when told to; handlers that serve only
authenticated clients, never mix two archives and never keep the mutex; a
registry file that names exactly the package directories; a client that reports
a download as good only if it is complete; a database that keeps what was done
and found; a cache directory in which processes do not destroy each other's
work. The list of hazards, each at its line, is in `PROJECT.json`.

## Modules

| module | extends / uses | models | checked by | proved in |
|---|---|---|---|---|
| `Transfer` | | one package, many clients, one handler per connection, one operator | `solo`, `pair`, `unchecked` | `TransferProofs` |
| `Registry` | `PackageSet` (refinement) | `registry.json`, the package directories, operator commands, the server TUI's operations, daemon start | `console`, `lost` | `RegistryProofs` |
| `PackageSet` | | the abstract catalogue: commands happen at once or not at all | as a property of `console` | `RegistryProofs`, `ConsoleProofs` |
| `Console` | `Registry` (extended and refined) | the server TUI key by key | `console` | `ConsoleProofs` |
| `Daemon` | | threads, descriptors, signals, `stop` | `daemon`, `idle` | `DaemonProofs` |
| `Discovery` | | hello datagrams, `discover_servers`, the loopback probe | `unheard` | `DiscoveryProofs` |
| `ClientDB` | | four database files, `dlr` commands, the client TUI's operations | `client`, `relist` | `ClientDBProofs` |
| `ClientTui` | `ClientDB` (extended and refined) | the client TUI key by key | `tui` | `ClientTuiProofs` |
| `Install` | | the shared cache directory, download, extraction, copying | `install` | `InstallProofs` |
| `Versions` | | versions, dependencies, platforms: how the reading of a manifest ends | an assumption of `install` | `InstallProofs` |

`MC*.tla` and `MC*.cfg` are the small instances. Definitions that a comment calls
a *mutant* are plausible mistakes in the code: put in the place of the
definition they follow, they make the run find the property violated. They
take no part in any specification.

The modules meet at what they leave to each other. `Transfer` ends a
connection in the state `Install` calls `Received`: with a checksum, or cut off
without one. `Install` registers a package by what `ClientDB` calls `Marks`.
`Registry` says which packages a daemon offers when it starts; `Transfer` takes
one of them and lets an operator remove and present it again. `Daemon` hands
accepted connections to the handlers of `Transfer`, and its hellos to
`Discovery`; whatever a scan finds there, `ClientDB` lets it find. `Versions`
says which of the outcomes of `Install`'s `ReadsManifest` a manifest has.
`Console` and `ClientTui` put a screen and a keyboard on `Registry` and
`ClientDB`: they extend them, use their actions, and have their specifications
as properties.

### Transfer

State: per client the connection (`c2s`, `s2c` as queues of frames, `cliOpen`,
`srvOpen`, `link`), the client's place `cpc`, what it has written (`out`), the
checksum it expects and its verdict; per handler thread its place `spc`, the
list of files it took for tar (`source`), the open archive (`file`, an inode)
and position; shared by the threads the registry mutex `lock`, the archive's
name `tarFile`, the contents `disk`; shared with the operator's processes the
package directory (`hasDir`, and `dir`, the version of each file). Every version
of the package has files of the same names, and a file is one block of the
archive. Each `Cli...` action is one turn of `connect_and_handshake` or
`download_from_server`, each `Srv...` action one of `proc_handle_client`,
`authenticate`, `handle_install_request`, `build_tar`. A handler waits for the
mutex in `find`, `search` and `list_all` as in `build_tar`; `build_tar` lists the
directory (`SrvLists`, which may throw when it vanishes) before tar truncates
the archive in place and writes it block by block, leaving out what it does not
find any more. `LinkBreaks`, `Quit` and `Operator...` are lost connections, Ctrl-C
and the operator's commands: `remove_all` and the recursive copy go file by
file (`OperatorRemovesFile`, `OperatorCopies`), may fail (`OperatorGivesUp`) and may
break off anywhere (`OperatorStops`). tar may fail and leave no archive, the old
one or a torn one, which is sent with its checksum all the same (`SrvTarFails`);
a client may be unable to create its file (`Requests`). Frames are kept whole:
`send_all` and `recv_all` loop until everything is through. SHA-256 is injective,
encryption appears only as frames that cannot be read.

What is checked:

* `UndisturbedIsComplete`: if the operator's commands were over and had done
  their work when `build_tar` went to list the directory, and from then until
  `INSTALL_END` no other request or operator touched directory or archive and
  tar did not fail (`quiet`), a verified download is the complete archive of one
  version. The condition is needed, in each part. A directory that is half
  copied, or half removed, is listed and sent as the package, with a checksum
  that matches: to the client nothing is wrong with it. The archive is streamed
  outside the mutex, so a second request for the package truncates what the
  first is sending; the checksum is computed from the name afterwards, so it can
  even be that of a file that is still being written. And the outcome of tar is
  not looked at beyond the existence of the archive.
* `ServesOnlyAuthenticated`, also for clients whose database is wrong about the
  password, whose request is then read as the password.
* `BlockedOnlyByStaleBelief`: both ends wait for each other only when a link died
  silently or the client waits for an `AUTH_REQUEST` that is not coming.
* `UncheckedOnlyWhenCut`, `DiesOnlyOfLeavers`: who can be blamed for an unchecked
  download and for the end of the daemon (SIGPIPE is not ignored;
  `fs::file_size` throws in a detached thread when the archive is gone, and the
  listing when the directory is). A client that leaves while it is served does
  take the daemon down.
* `CommandsEnd`, `MutexIsReleased` under `FairSpec`: weak fairness of each client
  and each handler, which are threads of their own that the scheduler runs; of a
  client it includes the user who types the password. Nothing is assumed of
  links, users who interrupt or the operator.

`solo` has one client and every fault but the operator. `pair` has two clients
and the operator, and checks the inductive invariant `Inv`; resets, silent links
and failing tars are left to `solo`, Minimal-OS archives too. Two files are the
least for which an archive can be torn, two versions (`MaxVersion`) the least for
which two can be mixed; two inodes let a handler hold an old archive next to the
new one. Once the last version is presented no command of the operator follows.
`unchecked` is the violation: `EveryDownloadIsChecked`, the README's promise.

Left out here: `attach`, which replaces one file of the directory; `PING`, whose
answer shares nothing; a second operator at the same time, which would let
copies and removals of two commands mix.

### Registry

State: `json`, `dirs`, per operator process its memory, place, command and the
packages the command is about; the daemon's copy `serves`. An entry is none or
a record: `version` stands for the two fields an attach keeps when the manifest
leaves them out (version and description), `script` for those it takes over as
they are. Architecture and operating system are neither merged by `attach_pkg`
nor written by `save`, so an entry does not have them. A directory is what the
manifest of the package's name in it says. Actions follow the public methods of
`PackageRegistry` as `server_main.cpp` and `server_tui.cpp` call them: each
loads, changes files and memory, and saves (`SaveOpens` truncates,
`SaveWrites` writes); a kill falls between any two. A presented folder may bring a
manifest of its own, which is copied and not read.

`console` runs this module under the server TUI (below), one process at a time,
commands and TUI sessions, with kills and failing disks: `TidyAgrees`,
`FreshDaemonServes`, `ManifestIsRegistered` and the refinement
`ImplementsPackageSet`, where a command takes effect when it opens the file to
write. All four speak of the histories in which commands did not overlap, were
not interrupted and did not fail (`tidy`); what becomes of the catalogue
otherwise is in the model, but the repository promises nothing for it except
what `lost` refutes. `ManifestIsRegistered` is the comment in the server TUI; its
own form does not live up to it (it writes the manifest into the package
directory and then attaches it from there, a copy onto itself, which fails
before anything is registered), so packages whose manifest the form wrote, or a
folder brought along, and no attach has read since (`unread`) are excepted.
`lost` is the violation: two overlapping `presentfile` commands, the later save
drops the entry of the earlier one. Two packages, two processes and two
manifests, one that leaves the version out and one that does not, suffice for
each of these; the number of commands is not bounded. Overlapping commands
(`Concurrency` above 1) are in `lost` and in the theorems, which hold for any
`Concurrency`.

### Console

State on top of `Registry`, per TUI: `view`, `sel`, `mode` (`in_form_` and
`form_confirm_`), `fields` (the size of `form_fields_`, 0, 2 or 8) and `edit`
(`edit_pkg_name_`). One action per key or group of keys of `handle_key` and
`handle_key_form`; the operations they start are the actions of `Registry`,
during which no key is read (`Works`, `Finishes`).

`FormOK`: Create and Edit share one vector of fields, and a save is guarded
only by their number; in no order of keys do the eight fields of one package get
saved into another. `SelInList`: the highlighted row exists after every removal
and reload. `ImplementsRegistry`: whatever is typed, the registry changes as in
`Registry`. Two packages, in an order (`Rank`, the one of `std::map`), and
`Page = 1` let every movement clamp at both ends. A form that outlives its
package (removed in the Packages view, or by a command before a reload) is
reachable: saving it makes a directory nobody registered, and `tidy` ends.

### Daemon

State: `running`, the two socket members, the descriptor table `file` with the
reuse of the lowest free number, the backlog of the listening socket, the place
of the main, hello and accept threads, which `std::thread` members own a thread
(`joinable`), and for each thread on which a signal handler runs its place in
`stop`: the flag, each close and the forgetting of each number, and for each
thread `joinable()`, the call of `join` and the wait are steps of their own.
`start` starts a thread (`MainStarts`) and then assigns it (`MainOwns`).
`Arrives`, `ClientOpens` and `ClientCloses` are clients, `Signal` the delivery of
SIGINT or SIGTERM to any thread.

`daemon` checks

* `JoinedBeforeExit`: a thread outlives the `Server` only when the first signal
  met main between its start and its assignment (server.cpp:32-33), when
  `joinable()` says no and `exit` destroys the object under it. That happens in
  the run; the property says that nothing else leads there.
* `HellosGoOut`: the number of the UDP socket may be a client's connection or
  archive a moment after `stop` closed it, and the hello thread uses a copy of it;
  as the flag is cleared before anything is closed, only a hello that was about
  to be sent when it fell can go astray.
* `Inv`, the invariant from which both follow, and under `Spec`, weak fairness of
  the main, hello and accept loops and of every `stop` (each is a thread that the
  scheduler runs): `BacklogIsServed` (accept may fail for want of descriptors, the
  loop goes on), `InsistingEnds` (a second signal during `stop` ends the process,
  if only by `std::system_error` from a second `join`), `StopsWhenBusy` (a signal
  ends the process provided clients keep arriving, which is its premise and not
  part of `Spec`).

Three descriptors make them run out, two signals nest. `idle` is the violation:
without a further client `stop` waits for ever for an accept thread that closing
the socket does not wake.

### ClientDB

State: `file`, the four JSON files; `mem`, one copy per `LocalDB` object; for each
object the steps it has still to do, so that the TUI, which runs a `Client`
object of its own inside the process, is a caller that waits. `load` and `save` go
file by file. Actions are `cmd_scan`, `cmd_install`, `cmd_download`,
`cmd_addrepo`, `cmd_removerepo` and the TUI's `do_...` functions. An installed
package is marked under the name it was asked for; the code takes the name its
manifest gives (client.cpp:680-681), which is assumed to be the same here
(`Install` lets them differ).

`client`: `DeedsAreStored` with the invariant `Inv` behind it, `ScanIsStored` (also after processes killed while
saving), `NoGhostRows`, one process at a time (`Concurrency`); with two the last
save wins as a whole and none of this holds. `relist` is the violation described
under findings. Two servers, one repository and one package are the least for a
row to change its origin; `MaxRounds` bounds the number of commands at four,
five in `relist`.

### ClientTui

State on top of `ClientDB`, per TUI: `view`, `sel`, `mode` (`searching_` and the
two steps of the prompt), `lists` (the vectors `load_data` copies out of the
database) and `found` (`filtered_`). The screen is drawn between two keys, and
`clamp_sel` is part of each action (`Draws`). `TuiNext` leaves out what servers
publish meanwhile (`Publishes`), which `client` covers.

`ScreenOK`: when a key is read the lists are those of the database the key will
work on, and the highlighted row exists. Three functions check only the upper
end of the list; page down on an empty one leads to row -1, and nothing but the
clamping while drawing keeps them from it. `ImplementsClientDB`: whatever keys
are pressed, the database changes as in `ClientDB`. Two packages, two
repositories and one server make lists of different lengths; `Page = 2`
overshoots them.

### Discovery

State: which servers run, whether another scan holds the discovery port, the
place of this scan, the datagrams in its socket, the results; `heard` is
history. A datagram is the sequence of the fields between its bars. `unheard` is
the violation: a hello is received and skipped, because the parser looks for one
bar more than the sender puts in. Two servers, one on the scanning machine,
show that only the probe of its default port finds any. A scan that cannot
bind the port (`Binds`) finds not even that.

### Versions

A version is a sequence of integers, a dependency a name, a relation and a
version. `CompareVersions` is the loop of the code, `Before` and `Same` the order
it decides: TLC compares them for all versions of up to three parts between -1
and 1 (the assumption `LoopIsOrder` in `MCInstall`), and `LoopDecides` states it for
all lengths and integers. `Satisfies` asks the loop, as the code does. `Reading` follows
`install_tar` from the manifest to the question whether to proceed; that
`">=1.0"` has the operator `>` and the version `"=1.0"`, on which `stoi` throws, as it
does for `"==1.0"`, `"!=1.0"`, `" >1.0"` and `">v1"`, is why `Install` has an end of its
own for it (`misread`).

### Install

State: the cache directory (`tar`: name to inode, `data`: blocks of an inode,
`hasDir` and `dir`: the `.extract_<pid>` directories), the current and the
install directory (`saved`; `installed`, under the name the manifest gives,
`called`), and per process its place, command, open file, position and the
entries it has still to clean or copy. A process starts with `clean_cache`,
which removes the archives and extraction directories of all others; nothing
tells it who is still running. `quiet` is a history variable: since the end of
its download nobody else cleaned or had its package or one whose manifest has
the same name. `failed` is another: what went wrong for it.

What may go wrong besides other processes: tar does not extract a block, and
`tar::extract` says true (`TarSkips`; a torn archive ends it early); a call of
`std::filesystem` throws for the disk's reasons, which nobody catches, wherever
the code makes one (`DiskThrows`); a write is lost, an entry of the cache cannot be
removed (`CleanFails`), the archive or `<package>/` cannot be created
(`CannotOpen`, `CannotUnpack`).

`install` checks

* `CheckedInstallIsComplete`, `CheckedDownloadIsComplete`: a checked and quiet
  installation or download is complete, whatever happened before the comparison
  and whatever the disk refused since, provided that tar did its work. Without
  that condition they do not hold: an extraction that fails after the manifest
  is installed and registered as if it were whole (tar.cpp:57-66).
* `ThrowsOnlyWhenDisturbed`: a quiet process ends by an exception of
  `std::filesystem` only if the disk refused something; no torn archive, failing
  tar or left-over directory leads to one.
* `LeavesNoDirectory`: every return of `install_tar` removes its directory, and a
  process removes what an earlier one of the same pid left, unless its cleaning
  broke off.

Two processes and two commands (`MaxStarts`) on two packages let one process
clean while the other works, or meet what a killed one with the same pid left,
and share an archive or an install directory; the theorems hold for any number.
One block is the manifest, so that a torn archive may still have it. `Callings`
has the manifests call the packages by their own names or both by one.
Without `quiet` the first three do not hold: a `dlr` command started while
another installs empties the directory it is copying from (`client.cpp:217`
calls what it removes "stale"). Without `checked` the first two do not either: a
repository's file is never compared (`client.cpp:500` passes no checksum), and a
connection that breaks off leaves a torn archive whose manifest may be whole.
Inodes are one fewer than processes and packages together at least, which is
all that can be in use at a time.

## Findings

| run | what the repository says | what the code does |
|---|---|---|
| `unchecked` | README.md:15, SHA-256 checks on every download | a lost connection ends the receive loop without a checksum and the torn file is reported as downloaded |
| `lost` | README.md:78, `presentfile` registers the file | of two overlapping commands the later save drops the earlier entry |
| `idle` | server_main.cpp:82, Ctrl+C stops the daemon | `stop` joins a thread that stays blocked in `accept` |
| `relist` | README.md:122, a scan puts the package list into the database | the client TUI overwrites it with rows from before the scan |
| `unheard` | README.md:13, servers are found by UDP broadcast | the hello has one bar less than the parser wants; only 127.0.0.1 is ever found |

Met on the way and left without a run:

* An open server or client TUI brings removed entries back with its next save.
* The rows of a removed repository survive every scan, though client.cpp:1209-1211
  says to run one to clear them.
* Saving a form of the server TUI never registers what was edited
  (server_tui.cpp:1140); reopening it shows the old values.
* In a search of the client TUI Enter ("confirm") shows the full list again with
  the row number of the filtered one: another package is highlighted.
* Two scans at a time on one machine: the second cannot bind the port and finds
  nothing. A scan listens for three seconds, the daemon speaks every five.
* `">=1.0"` in a dependency, or an installed version such as `v1`, ends `install` with
  an exception and leaves the extraction directory.
* An extraction that fails after the manifest (full disk, tar killed) is
  registered as a complete installation: `tar::extract` returns true in any case.
* A directory that `presentfolder` is still copying, or `removepackage` is still
  removing, is packed and served as the package, with a checksum that matches.
* A signal between the start of a thread and its assignment in `Server::start`
  leaves that thread running in a `Server` that `exit` has destroyed.
* An attached manifest without a version or a description leaves the old ones in
  the registry; its architecture and operating system never get there.
* While `stop` runs, a hello may be sent into whichever socket got the closed
  number.

## What is proved

The proofs hold for every value of the constants that satisfies the named
assumptions (`NamesAssumption`, `BlocksAssumption`, `ProcsAssumption` and so on: a
package has files, and finitely many; identities that are different from each
other; faults and commands among the known ones). They use no fairness.

* `TransferProofs`. `TypeCorrect`: types alone are not inductive, since a
  streaming handler reads the file it has open, so they are proved together
  with `FileInv`. `Invariant`: `Inv` holds, for any number of clients, files of
  the package, versions and inodes, and from it follow the five safety
  properties. `Undisturbed` carries the property from the directory (`DirInv`:
  an operator's command that did its work leaves one version or nothing) and
  the mutex (`MutexInv`: only its holder lists and runs tar) over the list and
  the archive (`ArchiveInv`: the list has every file, the archive grows block by
  block, then stays whole while undisturbed), the wire (`EndInv`: the checksum under way is that
  of a whole archive) to the verdict (`VerdictInv`: what is verified has the
  announced checksum). `Authenticated` is `AuthInv`: whose password the handler
  took, and which password a frame under way is. `NoDeadlock` needs `SessionInv`,
  the phases an unharmed connection goes through: at each the two ends are at
  places that fit and the frames between them are the ones the reader waits
  for. `Unchecked` (`SumInv`, `CutInv`) and `DaemonSurvives` (`DaemonInv`) say who
  is to blame: a cut connection, or an operator (`Operated`).
* `RegistryProofs`. `RegistryTypeCorrect`, `TidyCatalogue`, `FreshDaemon`,
  `ManifestsRegistered`.
  The properties speak of quiescent states; the invariant `TidyInv` says what
  holds in the middle: at most one process runs (`OneRuns`), its memory agrees
  with the directories before it saves (`MemAgrees`), the file does otherwise
  (`FileAgrees`), and so does a fresh daemon (`DaemonAgrees`). `CommandsAreWhole` is
  the refinement of `PackageSet`. What a command makes of the catalogue is seen
  only when it opens the file, several steps after it was accepted, so `OneInv`
  carries along what it will be: a process about to save differs from the file by
  one whole command (`SavesOne`), and one that clears has still to forget exactly
  what it names (`Clearing`).
* `InstallProofs`. `Invariance` and from it `InstallTypeCorrect`, `InstalledWhole`,
  `DownloadedWhole`, `NoExceptionAlone`, `NoDirectoryLeft`. The invariant `Inv`
  has what every process may rely on (`CmdInv`, `DirInv`: a directory left by an
  earlier process with the same pid is still on the list to clean), what names
  and inodes do (`FileInv`: one name each, writers know theirs), what quiet
  processes have (`QuietInv`) and what is whole at each place as long as tar does
  its work (`WholeInv`). The
  proof of the last separates a step of the process itself from a step of
  another, which keeps everything (`KeepsOthers`). The theorems about `Versions`
  are here too: `Asymmetric`, `Transitive`, `ExactlyOne` say that the order of versions
  is strict and total, whatever the number of parts, and `LoopDecides` that the
  loop of `compare_versions` computes it. The loop is a recursive function; its
  equation is shown to have one solution, the value that the first differing part
  gives (`Value`), by the least number for which two solutions could differ.
* `ConsoleProofs`. `OneFormAtATime` (`FormOK`), `KeysAreCommands`
  (`ConsoleSpec => Spec` of `Registry`, step by step: each key is an action of
  `Registry` or leaves its variables alone), and `ConsoleKeepsCatalogue` and
  `ConsoleCommandsAreWhole`, which carry the theorems of `RegistryProofs` over.
  `HighlightOnList` is `SelInList`: the highlight is bounded where it moves and
  where the list shrinks (`SelOf`), which needs the length of the list to be a
  number: memory never holds more than finitely many packages (`FiniteInv`), each
  command adding or removing one at a time or reading the file.
* `DaemonProofs`. `Invariant` and from it `Joined` (`JoinedBeforeExit`) and `SentOut`
  (`HellosGoOut`), for any number of signals. `JoinInv`: the first handler runs on
  main, which goes on no more; a handler passes a thread only when that thread
  is joined or was not joinable, and one that is not joinable is over, was never
  started, or is the one main was about to assign. `SendInv`: until the flag is
  cleared nobody is past it in `stop`, so the UDP socket is open and the number
  the hello thread holds is its. The types are in the same invariant, and
  `TypeCorrect` states them alone.
* `ClientDBProofs`. `TypeCorrect` for any number of processes at a time;
  `Invariant` and `DeedsStored` (`DeedsAreStored`) for one at a time, the
  assumption `Concurrency = 1`, which the `dlr` commands and the one TUI of a user
  meet and nothing in the code enforces. `StepsInv` says what plans there are,
  `CallInv` that a TUI waits for the one object it called and reads the files
  afterwards if that one installs, `OneRuns` that the others do nothing,
  `MemInv` that who runs has all deeds in memory or will read them first
  (`Behind`), `FileInv` that the files have them or someone will write them
  (`Owes`). `ScansStored` and `NoGhosts` (`ScanIsStored`, `NoGhostRows`) rest on a second
  invariant, `ScanInv`, of the same form for three facts a database should state
  (`Fine`: rows for what was offered, the servers that answered, no row of a server
  that did not offer it when it was last asked): every copy at work is fine or has still to be read
  (`Has`), the files are fine or someone has still to save (`Stored`). During a scan
  neither is enough, since the rows of a server go before it is asked: the servers
  still to be asked have not answered yet and own none of the rows counted so far
  (`Asks`). A kill forgets who was reached,
  so `ScanIsStored` needs no condition on kills; `NoGhostRows` does, since rows that
  were dropped in memory are still in the file if the scan is killed before it
  saves.
* `ClientTuiProofs`. `Implements` (`TuiSpec => Spec` of `ClientDB`, key by key) and
  `ScreenIsRight` (`ScreenOK`). A row that is removed or untracked is one of the
  database only because the lists shown are the maps: the invariant says that a
  TUI with more to do than to save or wait ends by reading the files (`Ready`), and
  that its lists are up to date when nothing is left to read (`UpToDate`). `ScreenInv`
  adds the mode, the search and the highlight: the row counted by `sel` exists. That
  there is a row for every rank below their number (`RowOf`) is a counting argument:
  as many ranks as rows and no two rows with the same rank, so none is missed. It
  needs the lists to be finite (`FiniteAssumption` of `ClientTui`): names are read
  from files and frames of bounded length.
* `DiscoveryProofs`. `OnlyNearIsFound`: `HelloIsFound`, which the run `unheard` refutes,
  fails for every server that is not on the scanning machine or not on the default
  port. No datagram that a server or the scan itself sends is parsed
  (`NothingParsed`), so what is found was probed.

Every safety property and every refinement that a passing run checks is proved.
Only model-checked is liveness (`CommandsEnd`, `MutexIsReleased`, `BacklogIsServed`, `InsistingEnds`, `StopsWhenBusy`), which is out of the prover's reach.
The violations are counterexamples of the runs alone, `HelloIsFound` excepted.

## Not modelled

* What is read or printed only: configuration, logger, `list`, `search`, `ping`,
  drawing and gauges of the TUIs, install scripts, the text of `.pkg` files.
* OpenSSL, curl, the JSON library and tar beyond what their callers rely on. The
  checksum is read in one step. In `Registry` (not in `Transfer`) a folder is
  copied in one step or fails.
* A manifest under another name than the package's in a presented folder, which a
  client would find (client.cpp:543): `Registry` looks at the one of that name.
* Minimal-OS archives, which `download` keeps as they are; the keyless mode of
  clients; install hooks, which run foreign programs.
* The life of handlers beyond `exit`; the restart by systemd.
* Files that are overwritten stay whole in `Install`: copying one is a step.
* The wire format of frames (partial reads and writes), and terminals with so few
  rows that the page keys change direction (`PageAssumption`).

The modules were written in the order of the table, each with its runs before
its proofs. What would come next: a composition of `Transfer` and `Install`, one
package from the daemon's directory to the client's, for which the states of
both are too many to check together.
