------------------------------ MODULE Install -------------------------------
(***************************************************************************)
(* The cache directory that all dlr processes of a machine share: a        *)
(* process empties it when it starts, downloads <package>.tar into it,     *)
(* compares the checksum, extracts the archive into .extract_<pid>, and    *)
(* copies what it finds there to the install directory; or it extracts to  *)
(* the current directory.  Nothing locks the cache.                        *)
(*                                                                         *)
(* An archive is NBlocks blocks, one file each; one of them is the .pkg    *)
(* manifest.  The names of the other files may be the same in different    *)
(* packages.  Files are inodes: a file can be removed or replaced under    *)
(* its name while a process has it open.  An exception of std::filesystem  *)
(* is caught by nobody and ends the process, whether another process is    *)
(* the reason or the disk.  The database is ClientDB's; Minimal-OS         *)
(* archives, which nobody extracts, are left out.                          *)
(***************************************************************************)
EXTENDS Naturals, FiniteSets

CONSTANTS
  Names,      \* packages
  Procs,      \* dlr processes, each with its pid
  Files,      \* inodes
  NBlocks,    \* blocks of an archive
  Manifest,   \* the one that holds the manifest
  Kinds,      \* "install", "download"
  Callings,   \* the names that the manifests may give to the packages
  Faults,     \* "kill" (a process is ended), "cut" (a download breaks off),
              \*   "disk" (it is full or forbids something), "tar" (tar fails)
  MaxStarts,  \* bound: how many commands
  NoFile,     \* no inode
  NoCommand

Blocks == 1..NBlocks

ASSUME BlocksAssumption == NBlocks \in Nat \ {0} /\ Manifest \in Blocks
ASSUME FilesAssumption ==
  /\ NoFile \notin Files
  /\ Cardinality(Files) + 1 >= Cardinality(Procs) + Cardinality(Names)
  /\ (Names \cup Procs) \cap Blocks = {} /\ Names \cap Procs = {}
ASSUME CallingsAssumption == Callings \subseteq [Names -> Names] /\ Callings # {}
ASSUME ChoicesAssumption ==
  Kinds \subseteq {"install", "download"} /\ MaxStarts \in Nat

Commands == [kind : {"install", "download"}, pkg : Names,
             source : {"unknown", "server", "repo"}]

ASSUME NoCommandAssumption == NoCommand \notin Commands

VARIABLES
  tar,       \* <cache>/<package>.tar, by name
  data,      \* the blocks in each inode
  hasDir,    \* whose .extract_<pid> exists
  dir,       \* the blocks in it
  saved,     \* blocks of each package in the current directory (download)
  called,    \* what the manifest in its archive calls each package
  installed, \* by that name, the blocks in the install directory, each
             \*   with the package whose archive it is from
  pc,        \* what each process is doing, or how it ended
  cmd,       \* its command, the package, and where it comes from
  fd, pos,   \* the archive it writes or reads, and how far it is
  todo,      \* cache entries it has still to clean, or blocks still to copy
  starts,    \* how many commands there were
  quiet,     \* history: since its download ended, nobody else has touched
             \*   what it uses
  checked,   \* history: it compared the checksum
  failed     \* history: what went wrong for it: "clean" (the cache was not
             \*   emptied), "tar" (a block was not extracted), "disk"

cache == <<tar, data, hasDir, dir>>
result == <<saved, installed>>
local == <<fd, pos, todo>>
past == <<called, starts, quiet, failed>>
vars == <<cache, result, pc, cmd, local, past, checked>>

Init ==
  /\ tar = [n \in Names |-> NoFile]
  /\ data = [f \in Files |-> {}]
  /\ hasDir = {}
  /\ dir = [p \in Procs |-> {}]
  /\ saved = [n \in Names |-> {}]
  /\ called \in Callings
  /\ installed = [n \in Names |-> {}]
  /\ pc = [p \in Procs |-> "over"]
  /\ cmd = [p \in Procs |-> NoCommand]
  /\ fd = [p \in Procs |-> NoFile]
  /\ pos = [p \in Procs |-> 0]
  /\ todo = [p \in Procs |-> {}]
  /\ starts = 0
  /\ quiet = [p \in Procs |-> FALSE]
  /\ checked = [p \in Procs |-> FALSE]
  /\ failed = [p \in Procs |-> {}]

Active == {p \in Procs : cmd[p] # NoCommand}
Goto(p, l) == pc' = [pc EXCEPT ![p] = l]

Fails(p, what) == failed' = [failed EXCEPT ![p] = @ \cup {what}]

(* The process ends: "over" by a return, "threw" by an exception of        *)
(* std::filesystem, "misread" by one of stoi, or "killed".                 *)
Quits(p, how) ==
  /\ Goto(p, how)
  /\ cmd' = [cmd EXCEPT ![p] = NoCommand]
  /\ fd' = [fd EXCEPT ![p] = NoFile]
  /\ pos' = [pos EXCEPT ![p] = 0]
  /\ todo' = [todo EXCEPT ![p] = {}]
  /\ checked' = [checked EXCEPT ![p] = FALSE]

Ends(p, how) == Quits(p, how) /\ UNCHANGED past

(* It goes on at l with nothing else to remember. *)
Continues(p, l) == Goto(p, l) /\ UNCHANGED <<cmd, local, past, checked>>

RemovesDir(p) == hasDir' = hasDir \ {p} /\ dir' = [dir EXCEPT ![p] = {}]
Unlinks(n) == tar' = [tar EXCEPT ![n] = NoFile]

-----------------------------------------------------------------------------
(* Client::Client and clean_cache.                                         *)

(* A process that starts will clean away what others have in the cache.    *)
(* An inode with neither a name nor a reader is free again.                *)
Starts(p, k, n) ==
  /\ p \notin Active /\ starts < MaxStarts
  /\ Goto(p, "clean")
  /\ cmd' = [cmd EXCEPT ![p] = [kind |-> k, pkg |-> n, source |-> "unknown"]]
  /\ todo' = [todo EXCEPT ![p] = {m \in Names : tar[m] # NoFile} \cup hasDir]
  /\ starts' = starts + 1
  /\ quiet' = [q \in Procs |-> FALSE]
  /\ data' = [f \in Files |->
       IF (\E m \in Names : tar[m] = f) \/ \E q \in Procs : fd[q] = f
         THEN data[f] ELSE {}]
  /\ failed' = [failed EXCEPT ![p] = {}]
  /\ UNCHANGED <<tar, hasDir, dir, result, called, fd, pos, checked>>

CleansTar(p) ==
  /\ pc[p] = "clean"
  /\ \E n \in todo[p] \cap Names :
       /\ Unlinks(n)
       /\ todo' = [todo EXCEPT ![p] = @ \ {n}]
  /\ UNCHANGED <<data, hasDir, dir, result, pc, cmd, fd, pos, past, checked>>

(* remove_all of an extraction directory: file by file, then the directory *)
(* itself.                                                                 *)
CleansDir(p) ==
  /\ pc[p] = "clean"
  /\ \E q \in todo[p] \cap Procs :
       \/ /\ \E b \in dir[q] : dir' = [dir EXCEPT ![q] = @ \ {b}]
          /\ UNCHANGED <<hasDir, todo>>
       \/ /\ dir[q] = {}
          /\ hasDir' = hasDir \ {q}
          /\ todo' = [todo EXCEPT ![p] = @ \ {q}]
          /\ UNCHANGED dir
  /\ UNCHANGED <<tar, data, result, pc, cmd, fd, pos, past, checked>>

(* An entry cannot be removed, or a tar that runs puts something into the  *)
(* directory again: the error ends the loop, and the rest stays as well.   *)
CleanFails(p) ==
  /\ pc[p] = "clean"
  /\ \/ "disk" \in Faults /\ todo[p] # {}
     \/ \E q \in todo[p] \cap Procs : dir[q] # {} /\ pc[q] = "tar"
  /\ todo' = [todo EXCEPT ![p] = {}]
  /\ Fails(p, "clean")
  /\ UNCHANGED <<cache, result, pc, cmd, fd, pos, called, starts, quiet, checked>>

-----------------------------------------------------------------------------
(* cmd_install and cmd_download up to the archive.                         *)

(* It is a repository's package or some server offers it; or it is         *)
(* installed already, or nobody has it, or nobody can be reached.          *)
Finds(p) ==
  /\ pc[p] = "clean" /\ todo[p] = {}
  /\ \/ /\ \E s \in {"server", "repo"} : cmd' = [cmd EXCEPT ![p].source = s]
        /\ Goto(p, "open")
        /\ UNCHANGED <<local, past, checked>>
     \/ Ends(p, "over")
  /\ UNCHANGED <<cache, result>>

(* "Cannot create", or "Cannot open destination". *)
CannotOpen(p) ==
  /\ "disk" \in Faults
  /\ pc[p] = "open"
  /\ Ends(p, "over")
  /\ UNCHANGED <<cache, result>>

(* ofstream: the file under the name is truncated, or a new one made. *)
Opens(p) ==
  LET n == cmd[p].pkg
      free == {f \in Files : /\ \A m \in Names : tar[m] # f
                             /\ \A q \in Procs : fd[q] # f}
  IN
  /\ pc[p] = "open"
  /\ \E f \in IF tar[n] = NoFile THEN free ELSE {tar[n]} :
       /\ tar' = [tar EXCEPT ![n] = f]
       /\ data' = [data EXCEPT ![f] = {}]
       /\ fd' = [fd EXCEPT ![p] = f]
  /\ Goto(p, "receive")
  /\ UNCHANGED <<hasDir, dir, result, cmd, pos, todo, past, checked>>

(* A write that fails is not noticed. *)
Receives(p) ==
  /\ pc[p] = "receive" /\ pos[p] < NBlocks
  /\ \/ data' = [data EXCEPT ![fd[p]] = @ \cup {pos[p] + 1}]
     \/ "disk" \in Faults /\ UNCHANGED data
  /\ pos' = [pos EXCEPT ![p] = @ + 1]
  /\ UNCHANGED <<tar, hasDir, dir, result, pc, cmd, fd, todo, past, checked>>

(* INSTALL_ERROR, a Minimal-OS archive for an installation, or an error of *)
(* curl: what was downloaded is removed.                                   *)
Refused(p) ==
  /\ pc[p] = "receive"
  /\ Unlinks(cmd[p].pkg)
  /\ Ends(p, "over")
  /\ UNCHANGED <<data, hasDir, dir, result>>

(* Two packages that use the same archive or the same install directory. *)
Apart(n, m) == n # m /\ called[n] # called[m]

(* No other process is cleaning or has the same package. *)
Alone(p) ==
  \A q \in Active \ {p} : pc[q] # "clean" /\ Apart(cmd[p].pkg, cmd[q].pkg)

(* The file is closed; it is quiet from here on. *)
Closes(p) ==
  /\ fd' = [fd EXCEPT ![p] = NoFile]
  /\ pos' = [pos EXCEPT ![p] = 0]
  /\ quiet' = [quiet EXCEPT ![p] = Alone(p)]
  /\ UNCHANGED <<cache, result, cmd, todo, called, starts, checked, failed>>

(* The loop of download_from_server ends: with INSTALL_END there is a      *)
(* checksum, when the connection is lost there is none.                    *)
Received(p) ==
  /\ pc[p] = "receive" /\ cmd[p].source = "server"
  /\ \/ pos[p] = NBlocks /\ Goto(p, "verify")
     \/ "cut" \in Faults /\ Goto(p, "got")
  /\ Closes(p)

(* repo::download_file: no checksum is ever asked for. *)
Fetched(p) ==
  /\ pc[p] = "receive" /\ cmd[p].source = "repo" /\ pos[p] = NBlocks
  /\ Goto(p, "got")
  /\ Closes(p)

(* Mutant: the checksum is computed but not compared. *)
VerifiesNothing(p) ==
  /\ pc[p] = "verify"
  /\ checked' = [checked EXCEPT ![p] = TRUE]
  /\ Goto(p, "got")
  /\ UNCHANGED <<cache, result, cmd, local, past>>

(* The checksum is that of the file under the name. *)
Verifies(p) ==
  LET f == tar[cmd[p].pkg] IN
  /\ pc[p] = "verify"
  /\ IF f # NoFile /\ data[f] = Blocks
       THEN /\ checked' = [checked EXCEPT ![p] = TRUE]
            /\ Goto(p, "got")
            /\ UNCHANGED <<tar, cmd, local, past>>
       ELSE Unlinks(cmd[p].pkg) /\ Ends(p, "over")
  /\ UNCHANGED <<data, hasDir, dir, result>>

-----------------------------------------------------------------------------
(* install_tar, and the end of cmd_download.                               *)

(* Mutant: the archive is extracted into a directory that nobody makes. *)
UnpacksNowhere(p) ==
  /\ pc[p] = "got"
  /\ fd' = [fd EXCEPT ![p] = tar[cmd[p].pkg]]
  /\ pos' = [pos EXCEPT ![p] = 0]
  /\ Goto(p, "tar")
  /\ UNCHANGED <<cache, result, cmd, todo, past, checked>>

(* A fresh directory in place of an old one, and tar; without an archive   *)
(* tar only complains.                                                     *)
Unpacks(p) ==
  /\ pc[p] = "got"
  /\ IF cmd[p].kind = "install"
       THEN /\ hasDir' = hasDir \cup {p} /\ dir' = [dir EXCEPT ![p] = {}]
            /\ failed' = [failed EXCEPT ![p] = @ \ {"clean"}]
       ELSE UNCHANGED <<hasDir, dir, failed>>
  /\ fd' = [fd EXCEPT ![p] = tar[cmd[p].pkg]]
  /\ pos' = [pos EXCEPT ![p] = 0]
  /\ Goto(p, "tar")
  /\ UNCHANGED <<tar, data, result, cmd, todo, called, starts, quiet, checked>>

(* cmd_download cannot make <package>/ and leaves the archive behind. *)
CannotUnpack(p) ==
  /\ "disk" \in Faults
  /\ pc[p] = "got" /\ cmd[p].kind = "download"
  /\ Ends(p, "over")
  /\ UNCHANGED <<cache, result>>

NextBlock(p) == fd[p] # NoFile /\ pos[p] + 1 \in data[fd[p]]

(* Mutant: tar goes on in a directory that was removed. *)
ExtractsAnywhere(p) ==
  /\ pc[p] = "tar" /\ NextBlock(p)
  /\ pos' = [pos EXCEPT ![p] = @ + 1]
  /\ dir' = [dir EXCEPT ![p] = @ \cup {pos[p] + 1}]
  /\ UNCHANGED <<tar, data, hasDir, saved, installed, pc, cmd, fd, todo, past,
                 checked>>

(* A file cannot be created in a directory that was removed. *)
Extracts(p) ==
  /\ pc[p] = "tar" /\ NextBlock(p)
  /\ pos' = [pos EXCEPT ![p] = @ + 1]
  /\ IF cmd[p].kind = "install"
       THEN /\ dir' = IF p \in hasDir
                        THEN [dir EXCEPT ![p] = @ \cup {pos[p] + 1}] ELSE dir
            /\ UNCHANGED saved
       ELSE /\ saved' = [saved EXCEPT ![cmd[p].pkg] = @ \cup {pos[p] + 1}]
            /\ UNCHANGED dir
  /\ UNCHANGED <<tar, data, hasDir, installed, pc, cmd, fd, todo, past, checked>>

(* The disk is full, or there is no tar, or it is killed: what it does not *)
(* extract is missing, and nobody is told.                                 *)
TarSkips(p) ==
  /\ "tar" \in Faults
  /\ pc[p] = "tar" /\ NextBlock(p)
  /\ pos' = [pos EXCEPT ![p] = @ + 1]
  /\ Fails(p, "tar")
  /\ UNCHANGED <<cache, result, pc, cmd, fd, todo, called, starts, quiet, checked>>

(* tar stops at the end of the archive or where it is torn; extract says   *)
(* TRUE in any case.                                                       *)
Extracted(p) ==
  /\ pc[p] = "tar" /\ ~NextBlock(p)
  /\ fd' = [fd EXCEPT ![p] = NoFile]
  /\ pos' = [pos EXCEPT ![p] = 0]
  /\ Goto(p, IF cmd[p].kind = "install" THEN "find" ELSE "drop")
  /\ UNCHANGED <<cache, result, cmd, todo, past, checked>>

(* cmd_download removes the archive, and does not mind if it cannot. *)
Drops(p) ==
  /\ pc[p] = "drop"
  /\ Unlinks(cmd[p].pkg) \/ ("disk" \in Faults /\ UNCHANGED tar)
  /\ Ends(p, "over")
  /\ UNCHANGED <<data, hasDir, dir, result>>

(* The search for the manifest throws when the directory is gone. *)
FindsManifest(p) ==
  /\ pc[p] = "find"
  /\ \/ /\ p \in hasDir /\ Manifest \in dir[p]
        /\ Continues(p, "read")
        /\ UNCHANGED <<hasDir, dir>>
     \/ /\ p \in hasDir /\ Manifest \notin dir[p]
        /\ RemovesDir(p)
        /\ Ends(p, "over")
     \/ /\ p \notin hasDir
        /\ Ends(p, "threw")
        /\ UNCHANGED <<hasDir, dir>>
  /\ UNCHANGED <<tar, data, result>>

(* Mutant: a declined installation returns at once. *)
ReadsAndReturns(p) ==
  /\ pc[p] = "read"
  /\ \/ Manifest \in dir[p] /\ Continues(p, "list")
     \/ Ends(p, "over")
  /\ UNCHANGED <<cache, result>>

(* parse_pkg, compatibility, rival, the user's consent: any may stop it,   *)
(* and the comparison of versions may throw.  Versions!Reading says which. *)
ReadsManifest(p) ==
  /\ pc[p] = "read"
  /\ \/ /\ Manifest \in dir[p]
        /\ Continues(p, "list")
        /\ UNCHANGED <<hasDir, dir>>
     \/ RemovesDir(p) /\ Ends(p, "over")
     \/ /\ Manifest \in dir[p]
        /\ Ends(p, "misread")
        /\ UNCHANGED <<hasDir, dir>>
  /\ UNCHANGED <<tar, data, result>>

(* The files to copy; the listing throws when the directory is gone. *)
Lists(p) ==
  /\ pc[p] = "list"
  /\ IF p \in hasDir
       THEN /\ todo' = [todo EXCEPT ![p] = dir[p] \ {Manifest}]
            /\ Goto(p, "copy")
            /\ UNCHANGED <<cmd, fd, pos, past, checked>>
       ELSE Ends(p, "threw")
  /\ UNCHANGED <<cache, result>>

(* A block of an archive of n in place of another package's. *)
Placed(n, b) == {f \in installed[called[n]] : f[2] # b} \cup {<<n, b>>}

(* copy_file throws when the file is gone. *)
Copies(p) ==
  /\ pc[p] = "copy"
  /\ \E b \in todo[p] :
       IF b \in dir[p]
         THEN /\ installed' = [installed EXCEPT
                   ![called[cmd[p].pkg]] = Placed(cmd[p].pkg, b)]
              /\ todo' = [todo EXCEPT ![p] = @ \ {b}]
              /\ UNCHANGED <<pc, cmd, fd, pos, past, checked>>
         ELSE Ends(p, "threw") /\ UNCHANGED installed
  /\ UNCHANGED <<cache, saved>>

(* mark_installed, upsert_package and save, which are ClientDB's. *)
Registers(p) ==
  /\ pc[p] = "copy" /\ todo[p] = {}
  /\ Continues(p, "leave")
  /\ UNCHANGED <<cache, result>>

Leaves(p) ==
  /\ pc[p] = "leave"
  /\ RemovesDir(p)
  /\ Ends(p, "over")
  /\ UNCHANGED <<tar, data, result>>

(* std::filesystem throws for reasons of the disk: a directory or a file   *)
(* cannot be made, read, copied, made executable or removed.  A removal of *)
(* the directory may have begun, a copy may have destroyed what was there. *)
DiskThrows(p) ==
  /\ "disk" \in Faults
  /\ pc[p] \in {"receive", "verify", "got", "find", "read", "list", "copy", "leave"}
  /\ \E D \in IF pc[p] \in {"got", "find", "read", "leave"}
             THEN SUBSET dir[p] ELSE {dir[p]} :
       dir' = [dir EXCEPT ![p] = D]
  /\ \/ UNCHANGED <<hasDir, installed>>
     \/ /\ pc[p] = "got" /\ cmd[p].kind = "install"
        /\ hasDir' = hasDir \cup {p}
        /\ UNCHANGED installed
     \/ /\ pc[p] = "copy"
        /\ \E b \in todo[p] :
             installed' = [installed EXCEPT
               ![called[cmd[p].pkg]] = {f \in @ : f[2] # b}]
        /\ UNCHANGED hasDir
  /\ Quits(p, "threw") /\ Fails(p, "disk")
  /\ UNCHANGED <<tar, data, saved, called, starts, quiet>>

(* The process is ended from outside; its files stay. *)
Killed(p) ==
  /\ "kill" \in Faults /\ p \in Active
  /\ Ends(p, "killed")
  /\ UNCHANGED <<cache, result>>

Step(p) ==
  \/ CleansTar(p) \/ CleansDir(p) \/ CleanFails(p) \/ Finds(p)
  \/ CannotOpen(p) \/ Opens(p) \/ Receives(p) \/ Refused(p) \/ Received(p)
  \/ Fetched(p) \/ Verifies(p)
  \/ Unpacks(p) \/ CannotUnpack(p) \/ Extracts(p) \/ TarSkips(p)
  \/ Extracted(p) \/ Drops(p)
  \/ FindsManifest(p) \/ ReadsManifest(p) \/ Lists(p) \/ Copies(p)
  \/ Registers(p) \/ Leaves(p) \/ DiskThrows(p)

Next ==
  \E p \in Procs :
    \/ Step(p) \/ Killed(p)
    \/ \E k \in Kinds, n \in Names : Starts(p, k, n)

Spec == Init /\ [][Next]_vars

-----------------------------------------------------------------------------

(* Every variable has its type, and there are files only in a directory    *)
(* that exists.                                                            *)
TypeOK ==
  /\ tar \in [Names -> Files \cup {NoFile}]
  /\ data \in [Files -> SUBSET Blocks]
  /\ hasDir \subseteq Procs
  /\ dir \in [Procs -> SUBSET Blocks]
  /\ \A p \in Procs : dir[p] # {} => p \in hasDir
  /\ saved \in [Names -> SUBSET Blocks]
  /\ called \in [Names -> Names]
  /\ installed \in [Names -> SUBSET (Names \X Blocks)]
  /\ pc \in [Procs -> {"clean", "open", "receive", "verify", "got", "tar",
                       "drop", "find", "read", "list", "copy", "leave",
                       "over", "threw", "misread", "killed"}]
  /\ cmd \in [Procs -> Commands \cup {NoCommand}]
  /\ fd \in [Procs -> Files \cup {NoFile}]
  /\ pos \in [Procs -> 0..NBlocks]
  /\ todo \in [Procs -> SUBSET (Names \cup Procs \cup Blocks)]
  /\ starts \in 0..MaxStarts
  /\ quiet \in [Procs -> BOOLEAN] /\ checked \in [Procs -> BOOLEAN]
  /\ failed \in [Procs -> SUBSET {"clean", "tar", "disk"}]

(* The blocks of package n that are in its install directory.              *)
Installed(n) == {b \in Blocks : <<n, b>> \in installed[called[n]]}

(* A package that install_tar has registered is complete in the install    *)
(* directory if the process compared the checksum, tar did its work, and   *)
(* from the end of the download on no other process started and none had   *)
(* the same package or one that its manifest calls the same.  Whatever     *)
(* happened to the archive before, the checksum tells; of what fails after *)
(* it only a failing tar is not noticed (tar.cpp:57-66).  Downloads and    *)
(* installs of other packages may be under way, others be killed halfway.  *)
CheckedInstallIsComplete ==
  \A p \in Procs :
    pc[p] = "leave" /\ quiet[p] /\ checked[p] /\ "tar" \notin failed[p] =>
      Blocks \ {Manifest} \subseteq Installed(cmd[p].pkg)

(* Under the same conditions cmd_download has extracted all of it. *)
CheckedDownloadIsComplete ==
  \A p \in Procs :
    pc[p] = "drop" /\ quiet[p] /\ checked[p] /\ "tar" \notin failed[p] =>
      saved[cmd[p].pkg] = Blocks

(* An exception of std::filesystem, which nobody catches, ends a process   *)
(* only if another one interfered with it or the disk refused something:   *)
(* neither a refusal of the server nor a torn archive nor a tar that fails *)
(* nor what a killed process left behind does.                             *)
ThrowsOnlyWhenDisturbed ==
  \A p \in Procs : pc[p] = "threw" => ~quiet[p] \/ "disk" \in failed[p]

(* Whichever return install_tar takes, its directory is removed; only an   *)
(* exception or a kill leaves one behind, and the next process of that pid *)
(* removes it, unless the cleaning broke off and it installs nothing.      *)
LeavesNoDirectory ==
  \A p \in Procs : pc[p] = "over" /\ "clean" \notin failed[p] => p \notin hasDir

-----------------------------------------------------------------------------
(* The inductive invariant behind these.                                   *)

Ended == {"over", "threw", "misread", "killed"}

CmdInv == \A p \in Procs : pc[p] \notin Ended => cmd[p] \in Commands

(* What an earlier process with the same pid left is still to be cleaned,  *)
(* and is gone before the process makes a directory of its own.            *)
DirInv ==
  \A p \in Procs : p \in hasDir /\ "clean" \notin failed[p] =>
    /\ pc[p] \notin {"open", "receive", "verify", "got", "drop", "over"}
    /\ pc[p] = "clean" => p \in todo[p]
    /\ pc[p] = "tar" => cmd[p].kind = "install"

Unpacked(p) ==
  \/ pc[p] \in {"find", "read", "list", "copy", "leave"}
  \/ pc[p] = "tar" /\ cmd[p].kind = "install"

(* Nobody cleans or has the package of a quiet process, and what it made   *)
(* is there.                                                               *)
QuietInv ==
  \A p \in Procs : quiet[p] =>
    /\ \A q \in Procs : pc[q] # "clean"
    /\ \A q \in Procs \ {p} :
         {pc[p], pc[q]} \cap Ended = {} => Apart(cmd[p].pkg, cmd[q].pkg)
    /\ Unpacked(p) => p \in hasDir
    /\ pc[p] = "copy" => todo[p] \subseteq dir[p]
    /\ pc[p] = "threw" => "disk" \in failed[p]

(* A name leads to a file of its own, and who writes a file opened it      *)
(* under the only name it can have.                                        *)
FileInv ==
  /\ \A n, m \in Names : tar[n] # NoFile /\ tar[n] = tar[m] => n = m
  /\ \A p \in Procs : pc[p] = "receive" =>
       fd[p] \in Files /\ \A n \in Names : tar[n] = fd[p] => n = cmd[p].pkg

WholeTar(p) ==
  /\ tar[cmd[p].pkg] \in Files
  /\ data[tar[cmd[p].pkg]] = Blocks

(* From a good checksum on everything is whole, if tar does its work. *)
Whole(p) ==
  /\ pc[p] = "got" => WholeTar(p)
  /\ pc[p] = "tar" =>
       /\ WholeTar(p) /\ fd[p] = tar[cmd[p].pkg]
       /\ 1..pos[p] \subseteq
            IF cmd[p].kind = "install" THEN dir[p] ELSE saved[cmd[p].pkg]
  /\ pc[p] = "drop" => saved[cmd[p].pkg] = Blocks
  /\ pc[p] \in {"find", "read", "list"} => dir[p] = Blocks
  /\ pc[p] = "copy" =>
       Blocks \ {Manifest} \subseteq Installed(cmd[p].pkg) \cup todo[p]
  /\ pc[p] = "leave" => Blocks \ {Manifest} \subseteq Installed(cmd[p].pkg)

WholeInv ==
  \A p \in Procs : checked[p] =>
    /\ pc[p] \in {"got", "tar", "drop", "find", "read", "list", "copy", "leave"}
    /\ quiet[p] /\ "tar" \notin failed[p] => Whole(p)

Inv == TypeOK /\ CmdInv /\ DirInv /\ QuietInv /\ FileInv /\ WholeInv

=============================================================================
