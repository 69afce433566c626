------------------------------ MODULE Transfer ------------------------------
(***************************************************************************)
(* One package of one Deliver server, and clients that talk to it over TCP.*)
(*                                                                         *)
(* Every client runs one command over one connection (connect, handshake,  *)
(* optional password, one request) and every connection has a handler      *)
(* thread in the daemon.  What the threads share is the package directory, *)
(* the archive <package>.tar that every install request rebuilds in place, *)
(* and the registry mutex.  An operator may remove and present the package *)
(* again from another process while requests are being served; both go     *)
(* through the directory file by file.                                     *)
(*                                                                         *)
(* Abstractions.  Every version of the package has files of the same       *)
(* names; file n of version v is copied, packed and sent as one block      *)
(* <<v, n>>, and an archive is the sequence of its blocks.                 *)
(* SHA-256 is injective: the checksum of a file is its content.            *)
(* Encryption is left out: a frame a client cannot decrypt is one whose    *)
(* type the handshake sends in clear.                                      *)
(***************************************************************************)
EXTENDS Naturals, Sequences, FiniteSets

CONSTANTS
  Clients,      \* client processes, each with one connection
  Files,        \* identities (inodes) an archive can have
  Nobody,       \* no handler holds the mutex
  NoFile,       \* no file
  Names,        \* the files of a version of the package
  MaxVersion,   \* bound: versions of the package; no command of the operator
                \*   follows the presentation of the last
  Faults,       \* which of "reset", "silent", "quit", "operator", "tar" (tar
                \*   fails), "disk" (a client cannot write) happen
  Ops,          \* commands the clients run
  Passwords,    \* what the users type
  Needs,        \* values of needs_password in the server's configuration
  Beliefs,      \* values of needs_password in the clients' databases
  Formats       \* whether the archive may be one for Minimal-OS

ASSUME IdentitiesAssumption == Nobody \notin Clients /\ NoFile \notin Files
ASSUME NamesAssumption == IsFiniteSet(Names) /\ Names # {}
ASSUME MaxVersionAssumption == MaxVersion \in Nat \ {0}
ASSUME ChoicesAssumption ==
  /\ Faults \subseteq {"reset", "silent", "quit", "operator", "tar", "disk"}
  /\ Ops \subseteq {"install", "download", "query"}
  /\ Passwords \subseteq {"good", "bad", "empty"}
  /\ Needs \subseteq BOOLEAN
  /\ Beliefs \subseteq BOOLEAN
  /\ Formats \subseteq BOOLEAN

Block == (1 .. MaxVersion) \X Names
Content == Seq(Block)

(* A directory lists its files in any order. *)
Orders(N) ==
  {s \in [1 .. Cardinality(N) -> N] : \A n \in N : \E k \in DOMAIN s : s[k] = n}

(* The archive of the files s of version v; one of a complete version.     *)
Archive(v, s) == [k \in 1 .. Len(s) |-> <<v, s[k]>>]

Complete(a) ==
  \E v \in 1 .. MaxVersion, s \in Orders(Names) : a = Archive(v, s)

(* The checksum of a file: sha256_hex_file returns "" when it cannot open  *)
(* the file, and the text of END is then empty.                            *)
NoSum == [sum |-> "none", of |-> <<>>]
Sum(s) == [sum |-> "sha256", of |-> s]
Checksum == [sum : {"none", "sha256"}, of : Content]

MsgType ==
  {"HELLO", "KEY", "AUTH_REQUEST", "PASSWORD", "EMPTY", "HELLO_ACK", "ERROR",
   "INSTALL_REQUEST", "SIZE", "DATA", "INSTALL_END", "INSTALL_ERROR",
   "QUERY", "REPLY"}

Frame == [type : MsgType, block : Content, sum : Checksum]

Msg(t) == [type |-> t, block |-> <<>>, sum |-> NoSum]
Data(b) == [type |-> "DATA", block |-> <<b>>, sum |-> NoSum]
End(k) == [type |-> "INSTALL_END", block |-> <<>>, sum |-> k]

(* The frames the daemon sends before the session is encrypted: a client   *)
(* that is past the handshake fails to decrypt them.                       *)
Clear == {"HELLO", "AUTH_REQUEST", "HELLO_ACK", "ERROR"}

VARIABLES
  cpc,        \* where each client is in connect_and_handshake or after it
  spc,        \* where each handler thread is
  c2s, s2c,   \* frames under way, by connection
  cliOpen,    \* the client holds its socket
  srvOpen,    \* the daemon holds its socket
  link,       \* "up", "reset" (both ends are told) or "silent" (neither is)
  out,        \* what the client wrote to its download
  expect,     \* the checksum the client was told
  result,     \* what the client's command reported
  file, pos,  \* the file a handler has open, and its position
  source,     \* the names it has listed for tar
  lock,       \* holder of PackageRegistry::mtx_
  disk,       \* contents of archive files
  tarFile,    \* the file the name <package>.tar leads to
  hasDir,     \* the package directory exists
  dir,        \* the version of each file in it, 0 when there is none
  version,    \* last version presented
  opc,        \* where the operator is in remove_package or present_folder
  broken,     \* an operator's command did not do all of its work
  daemon,     \* "up" or "dead"
  quiet,      \* history: nothing disturbed what this handler has packed
  needsPw, mpkg, registered,   \* server configuration and registry
  op, believes, pw             \* per client: command, database row, password

netVars == <<c2s, s2c, cliOpen, srvOpen, link>>
cliVars == <<cpc, out, expect, result>>
srvVars == <<spc, file, source, pos, lock, quiet, daemon>>
dirVars == <<hasDir, dir, version, opc, broken>>
diskVars == <<disk, tarFile, dirVars>>
confVars == <<needsPw, mpkg, registered, op, believes, pw>>
vars == <<netVars, cliVars, srvVars, diskVars, confVars>>

CliPc == {"start", "hello", "authreq", "ack", "recv", "verify", "done"}
SrvPc == {"listen", "key", "auth", "loop", "find", "list", "create", "write",
          "open", "size", "stream", "end", "gone"}

(* A handler between the listing of the directory and INSTALL_END. *)
Serving == {"list", "create", "write", "open", "size", "stream", "end"}

Init ==
  /\ cpc = [c \in Clients |-> "start"]
  /\ spc = [c \in Clients |-> "listen"]
  /\ c2s = [c \in Clients |-> <<>>]
  /\ s2c = [c \in Clients |-> <<>>]
  /\ cliOpen = [c \in Clients |-> FALSE]
  /\ srvOpen = [c \in Clients |-> FALSE]
  /\ link = [c \in Clients |-> "up"]
  /\ out = [c \in Clients |-> <<>>]
  /\ expect = [c \in Clients |-> NoSum]
  /\ result = [c \in Clients |-> "none"]
  /\ file = [c \in Clients |-> NoFile]
  /\ pos = [c \in Clients |-> 0]
  /\ source = [c \in Clients |-> <<>>]
  /\ lock = Nobody
  /\ disk = [f \in Files |-> <<>>]
  /\ tarFile = NoFile
  /\ hasDir = TRUE
  /\ dir = [n \in Names |-> 1]
  /\ version = 1
  /\ opc = "idle"
  /\ broken = FALSE
  /\ daemon = "up"
  /\ quiet = [c \in Clients |-> TRUE]
  /\ needsPw \in Needs
  /\ mpkg \in Formats
  /\ registered \in BOOLEAN
  /\ op \in [Clients -> Ops]
  /\ believes \in [Clients -> Beliefs]
  /\ pw \in [Clients -> Passwords]

-----------------------------------------------------------------------------
(* Frames.  A send to a peer that is gone is lost.  recv_frame returns {}  *)
(* for an empty frame and when the connection has ended; there is no       *)
(* receive timeout, so on a silent link it blocks.                         *)

CliGone(c) == ~cliOpen[c] \/ link[c] # "up"
SrvGone(c) == ~srvOpen[c] \/ link[c] # "up"

SrvSends(c, m) ==
  s2c' = IF CliGone(c) THEN s2c ELSE [s2c EXCEPT ![c] = Append(@, m)]

(* The frames ms, in order, towards the handler of c. *)
CliSends(c, ms) ==
  c2s' = IF SrvGone(c) THEN c2s ELSE [c2s EXCEPT ![c] = @ \o ms]

SrvGets(c, t) == c2s[c] # <<>> /\ Head(c2s[c]).type = t
CliGets(c, t) == s2c[c] # <<>> /\ Head(s2c[c]).type = t
SrvEOF(c) == c2s[c] = <<>> /\ CliGone(c) /\ link[c] # "silent"
CliEOF(c) == s2c[c] = <<>> /\ SrvGone(c) /\ link[c] # "silent"

SrvPops(c) == c2s' = [c2s EXCEPT ![c] = Tail(@)]
CliPops(c) == s2c' = [s2c EXCEPT ![c] = Tail(@)]

SrvGoto(c, l) == spc' = [spc EXCEPT ![c] = l]
CliGoto(c, l) == cpc' = [cpc EXCEPT ![c] = l]

(* The handler thread ends and closes its socket. *)
SrvCloses(c) == SrvGoto(c, "gone") /\ srvOpen' = [srvOpen EXCEPT ![c] = FALSE]

(* The command of c ends with result r and closes its socket. *)
CliEnds(c, r) ==
  /\ CliGoto(c, "done")
  /\ result' = [result EXCEPT ![c] = r]
  /\ cliOpen' = [cliOpen EXCEPT ![c] = FALSE]

(* The daemon process ends with every thread, socket and lock it has. *)
Dies ==
  /\ daemon' = "dead"
  /\ spc' = [x \in Clients |-> "gone"]
  /\ srvOpen' = [x \in Clients |-> FALSE]
  /\ lock' = Nobody
  /\ UNCHANGED <<c2s, s2c, cliOpen, link, file, source, pos, quiet,
                 cliVars, diskVars, confVars>>

-----------------------------------------------------------------------------
(* The client: connect_and_handshake, then one request.                    *)

CliConnect(c) ==
  /\ cpc[c] = "start"
  /\ IF daemon = "up"
       THEN /\ CliGoto(c, "hello")
            /\ cliOpen' = [cliOpen EXCEPT ![c] = TRUE]
            /\ srvOpen' = [srvOpen EXCEPT ![c] = TRUE]
            /\ UNCHANGED result
       ELSE CliEnds(c, "failed") /\ UNCHANGED srvOpen
  /\ UNCHANGED <<c2s, s2c, link, out, expect, srvVars, diskVars, confVars>>

Request(c) == Msg(IF op[c] = "query" THEN "QUERY" ELSE "INSTALL_REQUEST")

(* The request is out: the answer is next, unless the file for a download  *)
(* cannot be created.  When the client hangs up makes no difference then.  *)
Requests(c) ==
  \/ CliGoto(c, "recv") /\ UNCHANGED <<result, cliOpen>>
  \/ "disk" \in Faults /\ op[c] # "query" /\ CliEnds(c, "failed")

(* Without a password to give, the request follows the key at once. *)
CliHello(c) ==
  /\ cpc[c] = "hello"
  /\ CliGets(c, "HELLO")
  /\ CliPops(c)
  /\ IF believes[c]
       THEN /\ CliSends(c, <<Msg("KEY")>>)
            /\ CliGoto(c, "authreq")
            /\ UNCHANGED <<result, cliOpen>>
       ELSE CliSends(c, <<Msg("KEY"), Request(c)>>) /\ Requests(c)
  /\ UNCHANGED <<srvOpen, link, out, expect, srvVars, diskVars, confVars>>

(* The line the user types, which may be empty. *)
Password(c) == Msg(IF pw[c] = "empty" THEN "EMPTY" ELSE "PASSWORD")

CliAuthRequest(c) ==
  /\ cpc[c] = "authreq"
  /\ CliGets(c, "AUTH_REQUEST")
  /\ CliPops(c)
  /\ CliSends(c, <<Password(c)>>)
  /\ CliGoto(c, "ack")
  /\ UNCHANGED <<cliOpen, srvOpen, link, out, expect, result,
                 srvVars, diskVars, confVars>>

CliAck(c) ==
  /\ cpc[c] = "ack"
  /\ CliGets(c, "HELLO_ACK")
  /\ CliPops(c)
  /\ CliSends(c, <<Request(c)>>)
  /\ Requests(c)
  /\ UNCHANGED <<srvOpen, link, out, expect, srvVars, diskVars, confVars>>

(* The handshake fails on end of stream and on any other frame. *)
CliHandshakeFails(c) ==
  /\ \/ cpc[c] = "hello" /\ CliEOF(c)
     \/ /\ cpc[c] = "authreq"
        /\ CliEOF(c) \/ (s2c[c] # <<>> /\ ~CliGets(c, "AUTH_REQUEST"))
     \/ /\ cpc[c] = "ack"
        /\ CliEOF(c) \/ (s2c[c] # <<>> /\ ~CliGets(c, "HELLO_ACK"))
  /\ CliEnds(c, "failed")
  /\ UNCHANGED <<c2s, s2c, srvOpen, link, out, expect,
                 srvVars, diskVars, confVars>>

(* A command whose request is a search or a listing. *)
CliReply(c) ==
  /\ cpc[c] = "recv"
  /\ op[c] = "query"
  /\ \/ CliGets(c, "REPLY") /\ CliPops(c) /\ CliEnds(c, "ok")
     \/ /\ CliEOF(c) \/ (s2c[c] # <<>> /\ Head(s2c[c]).type \in Clear)
        /\ UNCHANGED s2c
        /\ CliEnds(c, "failed")
  /\ UNCHANGED <<c2s, srvOpen, link, out, expect, srvVars, diskVars, confVars>>

CliData(c) ==
  /\ cpc[c] = "recv"
  /\ op[c] # "query"
  /\ CliGets(c, "DATA")
  /\ CliPops(c)
  /\ out' = [out EXCEPT ![c] = @ \o Head(s2c[c]).block]
  /\ UNCHANGED <<cpc, expect, result, c2s, cliOpen, srvOpen, link,
                 srvVars, diskVars, confVars>>

(* "SIZE:<n>|FORMAT=mpkg" makes `dlr install` refuse and hang up. *)
CliSize(c) ==
  /\ cpc[c] = "recv"
  /\ op[c] # "query"
  /\ CliGets(c, "SIZE")
  /\ CliPops(c)
  /\ IF mpkg /\ op[c] = "install"
       THEN CliEnds(c, "failed") /\ out' = [out EXCEPT ![c] = <<>>]
       ELSE UNCHANGED <<cpc, result, cliOpen, out>>
  /\ UNCHANGED <<expect, c2s, srvOpen, link, srvVars, diskVars, confVars>>

CliError(c) ==
  /\ cpc[c] = "recv"
  /\ op[c] # "query"
  /\ CliGets(c, "INSTALL_ERROR")
  /\ CliPops(c)
  /\ CliEnds(c, "failed")
  /\ out' = [out EXCEPT ![c] = <<>>]
  /\ UNCHANGED <<expect, c2s, srvOpen, link, srvVars, diskVars, confVars>>

(* Mutant: the client forgets the checksum. *)
CliEndForgets(c) ==
  /\ cpc[c] = "recv"
  /\ op[c] # "query"
  /\ CliGets(c, "INSTALL_END")
  /\ CliPops(c)
  /\ CliGoto(c, "verify")
  /\ UNCHANGED <<out, expect, result, c2s, cliOpen, srvOpen, link,
                 srvVars, diskVars, confVars>>

CliEnd(c) ==
  /\ cpc[c] = "recv"
  /\ op[c] # "query"
  /\ CliGets(c, "INSTALL_END")
  /\ CliPops(c)
  /\ expect' = [expect EXCEPT ![c] = Head(s2c[c]).sum]
  /\ CliGoto(c, "verify")
  /\ UNCHANGED <<out, result, c2s, cliOpen, srvOpen, link,
                 srvVars, diskVars, confVars>>

(* "Connection lost during download": end of stream or a frame that does   *)
(* not decrypt leaves the loop as INSTALL_END does, without a checksum.    *)
CliLost(c) ==
  /\ cpc[c] = "recv"
  /\ op[c] # "query"
  /\ CliEOF(c) \/ (s2c[c] # <<>> /\ Head(s2c[c]).type \in Clear)
  /\ CliGoto(c, "verify")
  /\ UNCHANGED <<out, expect, result, netVars, srvVars, diskVars, confVars>>

(* The checksum is compared only when there is one. *)
CliVerify(c) ==
  /\ cpc[c] = "verify"
  /\ IF expect[c] # NoSum /\ Sum(out[c]) # expect[c]
       THEN CliEnds(c, "failed") /\ out' = [out EXCEPT ![c] = <<>>]
       ELSE CliEnds(c, "ok") /\ UNCHANGED out
  /\ UNCHANGED <<expect, c2s, s2c, srvOpen, link, srvVars, diskVars, confVars>>

(* The default action of SIGPIPE ends a client that sends to a closed or   *)
(* lost connection; the send may also just fail, as above.                 *)
CliSigpipe(c) ==
  /\ SrvGone(c)
  /\ \/ cpc[c] = "hello" /\ CliGets(c, "HELLO")
     \/ cpc[c] = "authreq" /\ CliGets(c, "AUTH_REQUEST")
     \/ cpc[c] = "ack" /\ CliGets(c, "HELLO_ACK")
  /\ CliEnds(c, "killed")
  /\ UNCHANGED <<c2s, s2c, srvOpen, link, out, expect,
                 srvVars, diskVars, confVars>>

Client(c) ==
  \/ CliConnect(c) \/ CliHello(c) \/ CliAuthRequest(c) \/ CliAck(c)
  \/ CliHandshakeFails(c) \/ CliReply(c) \/ CliData(c) \/ CliSize(c)
  \/ CliError(c) \/ CliEnd(c) \/ CliLost(c) \/ CliVerify(c) \/ CliSigpipe(c)

-----------------------------------------------------------------------------
(* The daemon: one handler thread for each accepted connection.            *)

SrvAccept(c) ==
  /\ spc[c] = "listen"
  /\ srvOpen[c]
  /\ SrvSends(c, Msg("HELLO"))
  /\ SrvGoto(c, "key")
  /\ UNCHANGED <<c2s, cliOpen, srvOpen, link, file, source, pos, lock, quiet,
                 daemon, cliVars, diskVars, confVars>>

(* authenticate sends its request as soon as the key is there. *)
SrvKey(c) ==
  /\ spc[c] = "key"
  /\ SrvGets(c, "KEY")
  /\ SrvPops(c)
  /\ IF needsPw
       THEN SrvSends(c, Msg("AUTH_REQUEST")) /\ SrvGoto(c, "auth")
       ELSE UNCHANGED s2c /\ SrvGoto(c, "loop")
  /\ UNCHANGED <<cliOpen, srvOpen, link, file, source, pos, lock, quiet, daemon,
                 cliVars, diskVars, confVars>>

(* Whatever frame comes next is taken for the password. *)
RightPassword(c) == SrvGets(c, "PASSWORD") /\ pw[c] = "good"

(* Mutant: authenticate's verdict is ignored. *)
SrvAuthIgnored(c) ==
  /\ spc[c] = "auth"
  /\ c2s[c] # <<>>
  /\ SrvPops(c)
  /\ SrvSends(c, Msg(IF RightPassword(c) THEN "HELLO_ACK" ELSE "ERROR"))
  /\ SrvGoto(c, "loop")
  /\ UNCHANGED <<cliOpen, srvOpen, link, file, source, pos, lock, quiet, daemon,
                 cliVars, diskVars, confVars>>

SrvAuth(c) ==
  /\ spc[c] = "auth"
  /\ c2s[c] # <<>>
  /\ SrvPops(c)
  /\ IF RightPassword(c)
       THEN /\ SrvSends(c, Msg("HELLO_ACK"))
            /\ SrvGoto(c, "loop")
            /\ UNCHANGED srvOpen
       ELSE /\ IF SrvGets(c, "EMPTY") THEN UNCHANGED s2c
                                      ELSE SrvSends(c, Msg("ERROR"))
            /\ SrvCloses(c)
  /\ UNCHANGED <<cliOpen, link, file, source, pos, lock, quiet, daemon,
                 cliVars, diskVars, confVars>>

(* The client went away: the thread ends, wherever it was receiving. *)
SrvHangup(c) ==
  /\ spc[c] \in {"key", "auth", "loop"}
  /\ SrvEOF(c)
  /\ SrvCloses(c)
  /\ UNCHANGED <<c2s, s2c, cliOpen, link, file, source, pos, lock, quiet,
                 daemon, cliVars, diskVars, confVars>>

(* search and list_all wait for the mutex. *)
SrvQuery(c) ==
  /\ spc[c] = "loop"
  /\ SrvGets(c, "QUERY")
  /\ lock = Nobody
  /\ SrvPops(c)
  /\ SrvSends(c, Msg("REPLY"))
  /\ UNCHANGED <<spc, cliOpen, srvOpen, link, file, source, pos, lock, quiet,
                 daemon, cliVars, diskVars, confVars>>

(* Mutant: a package that is not found is not answered. *)
SrvInstallRequestMute(c) ==
  /\ spc[c] = "loop"
  /\ SrvGets(c, "INSTALL_REQUEST")
  /\ lock = Nobody
  /\ SrvPops(c)
  /\ IF registered THEN SrvGoto(c, "find") ELSE UNCHANGED spc
  /\ UNCHANGED <<s2c, cliOpen, srvOpen, link, file, source, pos, lock, quiet,
                 daemon, cliVars, diskVars, confVars>>

(* handle_install_request up to registry_.find, which waits for the mutex. *)
SrvInstallRequest(c) ==
  /\ spc[c] = "loop"
  /\ SrvGets(c, "INSTALL_REQUEST")
  /\ lock = Nobody
  /\ SrvPops(c)
  /\ IF registered
       THEN SrvGoto(c, "find") /\ UNCHANGED s2c
       ELSE SrvSends(c, Msg("INSTALL_ERROR")) /\ UNCHANGED spc
  /\ UNCHANGED <<cliOpen, srvOpen, link, file, source, pos, lock, quiet, daemon,
                 cliVars, diskVars, confVars>>

(* Mutant: build_tar without the mutex. *)
SrvBuildTarUnlocked(c) ==
  /\ spc[c] = "find"
  /\ IF hasDir
       THEN /\ SrvGoto(c, "list")
            /\ lock' = c
            /\ quiet' = [quiet EXCEPT ![c] = @ /\ opc = "idle" /\ ~broken]
       ELSE /\ SrvGoto(c, "open")
            /\ quiet' = [quiet EXCEPT ![c] = FALSE]
            /\ UNCHANGED lock
  /\ UNCHANGED <<file, source, pos, daemon,
                 netVars, cliVars, diskVars, confVars>>

(* build_tar takes the mutex.  Without a directory it returns false, which *)
(* the caller ignores.                                                     *)
SrvBuildTar(c) ==
  /\ spc[c] = "find"
  /\ lock = Nobody
  /\ IF hasDir
       THEN /\ SrvGoto(c, "list")
            /\ lock' = c
            /\ quiet' = [quiet EXCEPT ![c] = @ /\ opc = "idle" /\ ~broken]
       ELSE /\ SrvGoto(c, "open")
            /\ quiet' = [quiet EXCEPT ![c] = FALSE]
            /\ UNCHANGED lock
  /\ UNCHANGED <<file, source, pos, daemon,
                 netVars, cliVars, diskVars, confVars>>

(* build_tar returns with no archive, or one that is not good. *)
SrvTarLacks(c) ==
  /\ SrvGoto(c, "open")
  /\ lock' = Nobody
  /\ file' = [file EXCEPT ![c] = NoFile]
  /\ source' = [source EXCEPT ![c] = <<>>]
  /\ quiet' = [quiet EXCEPT ![c] = FALSE]

Listed == {n \in Names : dir[n] # 0}

(* The names that tar will be given are those of now. *)
SrvLists(c) ==
  /\ spc[c] = "list" /\ hasDir
  /\ \/ Listed = {} /\ SrvTarLacks(c)
     \/ /\ Listed # {}
        /\ \E s \in Orders(Listed) : source' = [source EXCEPT ![c] = s]
        /\ SrvGoto(c, "create")
        /\ UNCHANGED <<file, lock, quiet>>
  /\ UNCHANGED <<pos, daemon, netVars, cliVars, diskVars, confVars>>

(* recursive_directory_iterator throws when the directory, or one in it    *)
(* that it comes to, is gone; nothing in the thread catches it.            *)
SrvListThrows(c) ==
  /\ spc[c] = "list"
  /\ ~hasDir \/ opc = "remove"
  /\ Dies

(* `tar -cf` truncates the archive in place, or makes a new file. *)
Unused(f) == f # tarFile /\ \A x \in Clients : file[x] # f

SrvTarCreate(c) ==
  /\ spc[c] = "create"
  /\ \E f \in Files :
       /\ IF tarFile = NoFile THEN Unused(f) ELSE f = tarFile
       /\ tarFile' = f
       /\ disk' = [disk EXCEPT ![f] = <<>>]
       /\ file' = [file EXCEPT ![c] = f]
  /\ pos' = [pos EXCEPT ![c] = 0]
  /\ quiet' = [x \in Clients |-> quiet[x] /\ (x = c \/ spc[x] \notin Serving)]
  /\ SrvGoto(c, "write")
  /\ UNCHANGED <<source, lock, daemon, dirVars, netVars, cliVars, confVars>>

(* Mutant: tar writes one block too many. *)
SrvTarWriteTooMany(c) ==
  /\ spc[c] = "write"
  /\ pos[c] <= Len(source[c])
  /\ pos' = [pos EXCEPT ![c] = @ + 1]
  /\ disk' = [disk EXCEPT ![file[c]] = Append(@, <<version, pos[c]>>)]
  /\ UNCHANGED <<spc, file, source, lock, quiet, daemon, tarFile, dirVars,
                 netVars, cliVars, confVars>>

(* tar packs what it finds under the next name, and only complains if      *)
(* there is nothing.                                                       *)
SrvTarWrite(c) ==
  /\ spc[c] = "write"
  /\ pos[c] < Len(source[c])
  /\ pos' = [pos EXCEPT ![c] = @ + 1]
  /\ LET n == source[c][pos[c] + 1] IN
       disk' = IF dir[n] = 0 THEN disk
               ELSE [disk EXCEPT ![file[c]] = Append(@, <<dir[n], n>>)]
  /\ UNCHANGED <<spc, file, source, lock, quiet, daemon, tarFile, dirVars,
                 netVars, cliVars, confVars>>

(* Mutant: build_tar returns before tar has written the last block. *)
SrvTarDoneEarly(c) ==
  /\ spc[c] = "write"
  /\ lock' = Nobody
  /\ file' = [file EXCEPT ![c] = NoFile]
  /\ source' = [source EXCEPT ![c] = <<>>]
  /\ SrvGoto(c, "open")
  /\ UNCHANGED <<pos, quiet, daemon, netVars, cliVars, diskVars, confVars>>

(* Mutant: build_tar returns with the mutex locked. *)
SrvTarDoneLocked(c) ==
  /\ spc[c] = "write"
  /\ pos[c] = Len(source[c])
  /\ file' = [file EXCEPT ![c] = NoFile]
  /\ source' = [source EXCEPT ![c] = <<>>]
  /\ SrvGoto(c, "open")
  /\ UNCHANGED <<pos, lock, quiet, daemon, netVars, cliVars, diskVars,
                 confVars>>

SrvTarDone(c) ==
  /\ spc[c] = "write"
  /\ pos[c] = Len(source[c])
  /\ lock' = Nobody
  /\ file' = [file EXCEPT ![c] = NoFile]
  /\ source' = [source EXCEPT ![c] = <<>>]
  /\ SrvGoto(c, "open")
  /\ UNCHANGED <<pos, quiet, daemon, netVars, cliVars, diskVars, confVars>>

(* There is no tar, or it cannot write, or it is killed: the old archive   *)
(* stays or the new one is torn, and the caller goes on with it.           *)
SrvTarFails(c) ==
  /\ "tar" \in Faults
  /\ spc[c] \in {"create", "write"}
  /\ SrvTarLacks(c)
  /\ UNCHANGED <<pos, daemon, netVars, cliVars, diskVars, confVars>>

(* exists(tar_path) and the ifstream: either may fail with INSTALL_ERROR.  *)
SrvOpen(c) ==
  /\ spc[c] = "open"
  /\ IF tarFile = NoFile
       THEN /\ SrvSends(c, Msg("INSTALL_ERROR"))
            /\ SrvGoto(c, "loop")
            /\ UNCHANGED <<file, pos>>
       ELSE /\ file' = [file EXCEPT ![c] = tarFile]
            /\ pos' = [pos EXCEPT ![c] = 0]
            /\ SrvGoto(c, "size")
            /\ UNCHANGED s2c
  /\ UNCHANGED <<c2s, cliOpen, srvOpen, link, source, lock, quiet, daemon,
                 cliVars, diskVars, confVars>>

(* file_size(tar_path) looks the name up again. *)
SrvSize(c) ==
  /\ spc[c] = "size"
  /\ tarFile # NoFile
  /\ SrvSends(c, Msg("SIZE"))
  /\ SrvGoto(c, "stream")
  /\ UNCHANGED <<c2s, cliOpen, srvOpen, link, file, source, pos, lock, quiet,
                 daemon, cliVars, diskVars, confVars>>

(* It throws when the name is gone; nothing in the thread catches it. *)
SrvSizeThrows(c) ==
  /\ spc[c] = "size"
  /\ tarFile = NoFile
  /\ Dies

SrvStream(c) ==
  /\ spc[c] = "stream"
  /\ IF pos[c] < Len(disk[file[c]])
       THEN /\ SrvSends(c, Data(disk[file[c]][pos[c] + 1]))
            /\ \/ pos' = [pos EXCEPT ![c] = @ + 1] /\ UNCHANGED spc
               \/ CliGone(c) /\ SrvGoto(c, "end") /\ UNCHANGED pos
       ELSE SrvGoto(c, "end") /\ UNCHANGED <<s2c, pos>>
  /\ UNCHANGED <<c2s, cliOpen, srvOpen, link, file, source, lock, quiet, daemon,
                 cliVars, diskVars, confVars>>

(* sha256_hex_file(tar_path) reads what the name leads to by then. *)
TarSum == IF tarFile = NoFile THEN NoSum ELSE Sum(disk[tarFile])

(* Mutant: the handler goes on sending after INSTALL_END. *)
SrvEndAgain(c) ==
  /\ spc[c] = "end"
  /\ SrvSends(c, End(TarSum))
  /\ UNCHANGED <<c2s, cliOpen, srvOpen, link, spc, file, source, pos, lock,
                 quiet, daemon, cliVars, diskVars, confVars>>

SrvEnd(c) ==
  /\ spc[c] = "end"
  /\ SrvSends(c, End(TarSum))
  /\ file' = [file EXCEPT ![c] = NoFile]
  /\ SrvGoto(c, "loop")
  /\ UNCHANGED <<c2s, cliOpen, srvOpen, link, source, pos, lock, quiet, daemon,
                 cliVars, diskVars, confVars>>

AboutToSend(c) ==
  \/ spc[c] = "listen" /\ srvOpen[c]
  \/ spc[c] = "key" /\ SrvGets(c, "KEY") /\ needsPw
  \/ spc[c] = "auth" /\ c2s[c] # <<>> /\ ~SrvGets(c, "EMPTY")
  \/ spc[c] = "loop" /\ SrvGets(c, "QUERY") /\ lock = Nobody
  \/ /\ spc[c] = "loop" /\ SrvGets(c, "INSTALL_REQUEST") /\ lock = Nobody
     /\ ~registered
  \/ spc[c] = "open" /\ tarFile = NoFile
  \/ spc[c] = "size" /\ tarFile # NoFile
  \/ spc[c] = "stream" /\ pos[c] < Len(disk[file[c]])
  \/ spc[c] = "end"

(* send() to a socket whose peer is gone raises SIGPIPE, which neither     *)
(* main nor net::init ignores; the send may also just fail, as above.      *)
SrvSigpipe(c) == CliGone(c) /\ AboutToSend(c) /\ Dies

Handler(c) ==
  \/ SrvAccept(c) \/ SrvKey(c) \/ SrvAuth(c) \/ SrvHangup(c) \/ SrvQuery(c)
  \/ SrvInstallRequest(c) \/ SrvBuildTar(c) \/ SrvLists(c) \/ SrvListThrows(c)
  \/ SrvTarCreate(c) \/ SrvTarWrite(c) \/ SrvTarDone(c) \/ SrvTarFails(c)
  \/ SrvOpen(c) \/ SrvSize(c) \/ SrvSizeThrows(c) \/ SrvStream(c) \/ SrvEnd(c)
  \/ SrvSigpipe(c)

-----------------------------------------------------------------------------
(* The environment.                                                        *)

(* The connection is lost with the frames that were not yet delivered. *)
LinkBreaks(c) ==
  /\ cliOpen[c] /\ srvOpen[c] /\ link[c] = "up"
  /\ \E how \in {"reset", "silent"} \cap Faults :
       link' = [link EXCEPT ![c] = how]
  /\ \E i \in 0 .. Len(c2s[c]), j \in 0 .. Len(s2c[c]) :
       /\ c2s' = [c2s EXCEPT ![c] = SubSeq(@, 1, i)]
       /\ s2c' = [s2c EXCEPT ![c] = SubSeq(@, 1, j)]
  /\ UNCHANGED <<cliOpen, srvOpen, cliVars, srvVars, diskVars, confVars>>

(* Ctrl-C in the client: its handler calls exit. *)
Quit(c) ==
  /\ "quit" \in Faults
  /\ cpc[c] \notin {"start", "done"}
  /\ CliEnds(c, "killed")
  /\ UNCHANGED <<c2s, s2c, srvOpen, link, out, expect,
                 srvVars, diskVars, confVars>>

Disturb == quiet' = [x \in Clients |-> quiet[x] /\ spc[x] \notin Serving]

(* What an operator's step leaves alone, apart from quiet. *)
Aside ==
  <<disk, spc, file, source, pos, lock, daemon, netVars, cliVars, confVars>>

(* The operator is about to remove the directory, or in the middle of it. *)
Removing == opc = "remove" \/ (opc = "idle" /\ version < MaxVersion)

(* removepackage in another process: remove_all takes file by file from    *)
(* the directory and then the directory itself; then the archive goes.     *)
OperatorRemovesFile ==
  /\ "operator" \in Faults /\ Removing
  /\ \E n \in Listed : dir' = [dir EXCEPT ![n] = 0]
  /\ opc' = "remove"
  /\ Disturb
  /\ UNCHANGED <<tarFile, hasDir, version, broken, Aside>>

OperatorRemovesDir ==
  /\ Removing /\ hasDir /\ Listed = {}
  /\ hasDir' = FALSE
  /\ opc' = "tar"
  /\ Disturb
  /\ UNCHANGED <<tarFile, dir, version, broken, Aside>>

(* An error of remove_all is reported, and the rest of the files stays. *)
OperatorGivesUp ==
  /\ "operator" \in Faults /\ Removing /\ hasDir
  /\ opc' = "tar"
  /\ broken' = TRUE
  /\ UNCHANGED <<tarFile, hasDir, dir, version, quiet, Aside>>

(* Also when an earlier removal got no further than the directory. *)
OperatorRemovesTar ==
  /\ opc = "tar" \/ (opc = "idle" /\ Removing /\ ~hasDir /\ broken)
  /\ tarFile' = NoFile
  /\ opc' = "idle"
  /\ Disturb
  /\ UNCHANGED <<hasDir, dir, version, broken, Aside>>

(* presentfolder in another process, with a new version of the files: they *)
(* are copied one by one, to a new directory or over what is there.        *)
OperatorPresents ==
  /\ "operator" \in Faults
  /\ opc = "idle"
  /\ version < MaxVersion
  /\ version' = version + 1
  /\ hasDir' = TRUE
  /\ opc' = "copy"
  /\ UNCHANGED <<tarFile, dir, broken, quiet, Aside>>

OperatorCopies ==
  /\ opc = "copy"
  /\ \E n \in Names :
       /\ dir[n] # version
       /\ dir' = [dir EXCEPT ![n] = version]
  /\ Disturb
  /\ UNCHANGED <<tarFile, hasDir, version, opc, broken, Aside>>

OperatorCopied ==
  /\ opc = "copy"
  /\ \A n \in Names : dir[n] = version
  /\ opc' = "idle"
  /\ broken' = FALSE
  /\ UNCHANGED <<tarFile, hasDir, dir, version, quiet, Aside>>

(* The command is killed, or a copy or the removal of the archive fails. *)
OperatorStops ==
  /\ opc # "idle"
  /\ opc' = "idle"
  /\ broken' = TRUE
  /\ UNCHANGED <<tarFile, hasDir, dir, version, quiet, Aside>>

Operator ==
  \/ OperatorRemovesFile \/ OperatorRemovesDir \/ OperatorGivesUp
  \/ OperatorRemovesTar \/ OperatorPresents \/ OperatorCopies
  \/ OperatorCopied \/ OperatorStops

(* The commands are over; the daemon waits for connections for ever. *)
Finished ==
  /\ \A c \in Clients : cpc[c] = "done" /\ spc[c] \in {"listen", "gone"}
  /\ UNCHANGED vars

Next ==
  \/ \E c \in Clients : Client(c) \/ Handler(c) \/ LinkBreaks(c) \/ Quit(c)
  \/ Operator
  \/ Finished

Spec == Init /\ [][Next]_vars

(* The system schedules every thread that can run; nothing makes a link    *)
(* break, a user hit Ctrl-C or an operator act.                            *)
Fairness == \A c \in Clients : WF_vars(Client(c)) /\ WF_vars(Handler(c))

FairSpec == Spec /\ Fairness

-----------------------------------------------------------------------------
(* Properties. *)

(* The types of the variables: programs counters of connect_and_handshake, *)
(* download_from_server, proc_handle_client and handle_install_request,    *)
(* frames on the wire, files on disk.                                      *)
TypeOK ==
  /\ cpc \in [Clients -> CliPc]
  /\ spc \in [Clients -> SrvPc]
  /\ c2s \in [Clients -> Seq(Frame)]
  /\ s2c \in [Clients -> Seq(Frame)]
  /\ cliOpen \in [Clients -> BOOLEAN]
  /\ srvOpen \in [Clients -> BOOLEAN]
  /\ link \in [Clients -> {"up", "reset", "silent"}]
  /\ out \in [Clients -> Content]
  /\ expect \in [Clients -> Checksum]
  /\ result \in [Clients -> {"none", "ok", "failed", "killed"}]
  /\ file \in [Clients -> Files \cup {NoFile}]
  /\ pos \in [Clients -> Nat]
  /\ source \in [Clients -> Seq(Names)]
  /\ lock \in Clients \cup {Nobody}
  /\ disk \in [Files -> Content]
  /\ tarFile \in Files \cup {NoFile}
  /\ hasDir \in BOOLEAN /\ broken \in BOOLEAN
  /\ dir \in [Names -> 0 .. MaxVersion]
  /\ version \in 1 .. MaxVersion
  /\ opc \in {"idle", "remove", "tar", "copy"}
  /\ daemon \in {"up", "dead"}
  /\ quiet \in [Clients -> BOOLEAN]
  /\ needsPw \in BOOLEAN /\ mpkg \in BOOLEAN /\ registered \in BOOLEAN
  /\ op \in [Clients -> {"install", "download", "query"}]
  /\ believes \in [Clients -> BOOLEAN]
  /\ pw \in [Clients -> {"good", "bad", "empty"}]

(* A download the client has reported as good, after it compared the       *)
(* checksum of INSTALL_END.                                                *)
Verified(c) == op[c] # "query" /\ result[c] = "ok" /\ expect[c] # NoSum

(* Every file a handler reads or writes is open. *)
FileInv ==
  \A c \in Clients : spc[c] \in {"write", "size", "stream"} => file[c] \in Files

(* When the operator's commands were over and had done all their work as   *)
(* build_tar went to list the directory, and from then until INSTALL_END   *)
(* neither an operator changed a file nor another request touched the      *)
(* archive nor tar failed, a verified download is the whole archive of one *)
(* version: the mutex around build_tar, the streaming loop, the checksum   *)
(* that is computed from the name and the comparison in the client         *)
(* together leave no room for a truncated or mixed archive.                *)
UndisturbedIsComplete ==
  \A c \in Clients : Verified(c) /\ quiet[c] => Complete(out[c])

(* A server that needs a password serves no request of a client that did   *)
(* not give it, in particular not of one whose database says that no       *)
(* password is needed and whose request is therefore read as a password.   *)
ServesOnlyAuthenticated ==
  \A c \in Clients :
    needsPw /\ spc[c] \in {"loop", "find"} \cup Serving
      => believes[c] /\ pw[c] = "good"

CliBlocked(c) ==
  /\ cpc[c] \in {"hello", "authreq", "ack", "recv"}
  /\ s2c[c] = <<>>
  /\ ~CliEOF(c)

SrvBlocked(c) ==
  /\ spc[c] \in {"key", "auth", "loop"}
  /\ c2s[c] = <<>>
  /\ ~SrvEOF(c)

(* Something an operator did may show: a command is under way or did not   *)
(* do all its work, the package is gone, or it was presented anew.         *)
Operated == opc # "idle" \/ ~hasDir \/ broken \/ version > 1

(* Client and handler both block in recv_frame only if the link died       *)
(* silently or the client waits for an AUTH_REQUEST because its database   *)
(* wrongly says that the server needs a password.                          *)
BlockedOnlyByStaleBelief ==
  \A c \in Clients :
    CliBlocked(c) /\ SrvBlocked(c)
      => link[c] = "silent" \/ (believes[c] /\ ~needsPw)

(* A download that is reported as good without a comparison of checksums   *)
(* (INSTALL_END never came, or came without one) happens only if the       *)
(* connection or the daemon died, the client skipped a password the server *)
(* asks for, or an operator was at work on the package.                    *)
UncheckedOnlyWhenCut ==
  \A c \in Clients :
    op[c] # "query" /\ result[c] = "ok" /\ expect[c] = NoSum
      => \/ link[c] # "up" \/ daemon = "dead"
         \/ needsPw /\ ~believes[c]
         \/ Operated

(* The daemon goes down, by SIGPIPE or by a file_size or a listing that    *)
(* throws, only when a peer left while it was served (user, link or        *)
(* refusal), when one has the wrong idea of whether a password is needed,  *)
(* or when an operator was at work on the package: never by clients that   *)
(* wait for their answers.                                                 *)
DiesOnlyOfLeavers ==
  daemon = "dead" =>
    \/ \E c \in Clients : \/ link[c] # "up"
                          \/ result[c] \in {"killed", "failed"}
                          \/ believes[c] # needsPw
    \/ Operated

(* The inductive invariant behind UndisturbedIsComplete.                   *)

(* Only the holder of the mutex lists the directory and runs tar. *)
MutexInv ==
  \A c \in Clients : spc[c] \in {"list", "create", "write"} => lock = c

(* An operator's command that did its work leaves a complete version or    *)
(* nothing.                                                                *)
DirInv ==
  /\ opc = "idle" /\ hasDir /\ ~broken => dir = [n \in Names |-> version]
  /\ ~hasDir => dir = [n \in Names |-> 0]
  /\ opc = "copy" => hasDir /\ version > 1
  /\ opc = "tar" => ~hasDir \/ broken

(* An undisturbed handler lists and packs one version, its archive grows   *)
(* block by block while tar writes it, and is whole, with no tar at work   *)
(* on it, from then until INSTALL_END.                                     *)
Uniform(v) == hasDir /\ dir = [n \in Names |-> v]

Growing(c) ==
  /\ tarFile = file[c]
  /\ pos[c] <= Len(source[c])
  /\ \E v \in 1 .. MaxVersion :
       /\ Uniform(v)
       /\ disk[file[c]] = [k \in 1 .. pos[c] |-> <<v, source[c][k]>>]

Whole ==
  /\ tarFile # NoFile
  /\ Complete(disk[tarFile])
  /\ \A d \in Clients : spc[d] # "write"

ArchiveInv ==
  \A c \in Clients :
    quiet[c] => /\ spc[c] \in {"list", "create"}
                     => \E v \in 1 .. MaxVersion : Uniform(v)
                /\ spc[c] \in {"create", "write"} => source[c] \in Orders(Names)
                /\ spc[c] = "write" => Growing(c)
                /\ spc[c] \in {"open", "size", "stream", "end"} => Whole

(* An undisturbed handler announces the checksum of a whole archive, on    *)
(* the wire and in what the client read.                                   *)
WholeSum(k) == k = Sum(k.of) /\ Complete(k.of)

EndsWhole(frames) ==
  \A i \in 1 .. Len(frames) :
    frames[i].type = "INSTALL_END" => WholeSum(frames[i].sum)

EndInv ==
  \A c \in Clients :
    quiet[c] => /\ EndsWhole(s2c[c])
                /\ expect[c] # NoSum => WholeSum(expect[c])

(* A verdict is final, and a good one with a checksum is a true one. *)
VerdictInv ==
  \A c \in Clients :
    /\ result[c] # "none" => cpc[c] = "done"
    /\ Verified(c) => Sum(out[c]) = expect[c]

(* The inductive strengthening of ServesOnlyAuthenticated: only a client   *)
(* that believes in a password waits for AUTH_REQUEST or HELLO_ACK, and    *)
(* only such a client has a PASSWORD under way.                            *)
OffersPassword(frames) ==
  \E i \in 1 .. Len(frames) : frames[i].type = "PASSWORD"

AuthInv ==
  /\ \A c \in Clients :
       cpc[c] \in {"authreq", "ack"} \/ OffersPassword(c2s[c]) => believes[c]
  /\ ServesOnlyAuthenticated

(* What an unharmed connection is about: where its two ends are and what   *)
(* is under way between them.  The inductive strengthening of the three    *)
(* properties about blocking, unchecked downloads and the daemon's death.  *)
Skipped(c) == needsPw /\ ~believes[c]

Both(c) == cliOpen[c] /\ srvOpen[c]

(* Until INSTALL_END a download is answered by SIZE and DATA. *)
Partial == {"SIZE", "DATA"}
Final == {"REPLY", "INSTALL_ERROR", "INSTALL_END"}

Underway(frames) == \A i \in 1 .. Len(frames) : frames[i].type \in Partial

Answered(frames) ==
  /\ frames # <<>>
  /\ \A i \in 1 .. Len(frames) :
       frames[i].type \in IF i = Len(frames) THEN Final ELSE Partial

Unconnected(c) ==
  /\ cpc[c] = "start" /\ spc[c] = "listen" /\ ~cliOpen[c] /\ ~srvOpen[c]
  /\ c2s[c] = <<>> /\ s2c[c] = <<>>

Greeting(c) ==
  /\ cpc[c] = "hello" /\ Both(c) /\ c2s[c] = <<>>
  /\ \/ spc[c] = "listen" /\ s2c[c] = <<>>
     \/ spc[c] = "key" /\ s2c[c] = <<Msg("HELLO")>>

AwaitingAuth(c) ==
  /\ cpc[c] = "authreq" /\ Both(c) /\ believes[c]
  /\ \/ spc[c] = "key" /\ c2s[c] = <<Msg("KEY")>> /\ s2c[c] = <<>>
     \/ /\ needsPw /\ spc[c] = "auth"
        /\ c2s[c] = <<>> /\ s2c[c] = <<Msg("AUTH_REQUEST")>>
     \/ ~needsPw /\ spc[c] = "loop" /\ c2s[c] = <<>> /\ s2c[c] = <<>>

Authenticating(c) ==
  /\ cpc[c] = "ack" /\ cliOpen[c] /\ believes[c] /\ needsPw
  /\ \/ /\ srvOpen[c] /\ spc[c] = "auth"
        /\ c2s[c] = <<Password(c)>> /\ s2c[c] = <<>>
     \/ /\ srvOpen[c] /\ spc[c] = "loop"
        /\ c2s[c] = <<>> /\ s2c[c] = <<Msg("HELLO_ACK")>>
     \/ ~srvOpen[c] /\ spc[c] = "gone" /\ s2c[c] \in {<<>>, <<Msg("ERROR")>>}

Requesting(c) ==
  /\ cpc[c] = "recv" /\ cliOpen[c]
  /\ \/ /\ srvOpen[c] /\ spc[c] = "key" /\ ~believes[c]
        /\ c2s[c] = <<Msg("KEY"), Request(c)>> /\ s2c[c] = <<>>
     \/ Skipped(c) /\ spc[c] = "auth" /\ c2s[c] = <<Request(c)>>
     \/ Skipped(c) /\ spc[c] = "gone"
     \/ /\ srvOpen[c] /\ spc[c] = "loop"
        /\ c2s[c] = <<Request(c)>> /\ s2c[c] = <<>>
     \/ /\ srvOpen[c] /\ spc[c] \in {"find"} \cup Serving
        /\ c2s[c] = <<>> /\ Underway(s2c[c])
     \/ srvOpen[c] /\ spc[c] = "loop" /\ c2s[c] = <<>> /\ Answered(s2c[c])

Finishing(c) ==
  /\ cpc[c] \in {"verify", "done"}
  /\ \/ Skipped(c)
     \/ result[c] \in {"failed", "killed"}
     \/ c2s[c] = <<>> /\ spc[c] \in {"loop", "gone"}

Session(c) ==
  \/ Unconnected(c) \/ Greeting(c) \/ AwaitingAuth(c) \/ Authenticating(c)
  \/ Requesting(c) \/ Finishing(c)

SessionInv ==
  \A c \in Clients : link[c] = "up" /\ daemon = "up" => Session(c)

(* A dead daemon has no threads. *)
DaemonInv == daemon = "dead" => \A c \in Clients : spc[c] = "gone"

(* An archive is missing, and INSTALL_END without a checksum, only after   *)
(* an operator's command. *)
EndsSummed(frames) ==
  \A i \in 1 .. Len(frames) :
    frames[i].type = "INSTALL_END" /\ frames[i].sum = NoSum => Operated

SumInv ==
  \A c \in Clients :
    /\ spc[c] \in {"size", "stream", "end"} /\ tarFile = NoFile => Operated
    /\ EndsSummed(s2c[c])
    /\ op[c] # "query" /\ cpc[c] = "verify" /\ expect[c] = NoSum
         => link[c] # "up" \/ daemon = "dead" \/ Skipped(c) \/ Operated

CutInv ==
  /\ SessionInv /\ DaemonInv /\ SumInv
  /\ UncheckedOnlyWhenCut /\ DiesOnlyOfLeavers

Inv ==
  /\ TypeOK /\ FileInv /\ MutexInv /\ DirInv /\ ArchiveInv
  /\ EndInv /\ VerdictInv /\ AuthInv /\ CutInv

(* Every command ends and every mutex is released, whatever breaks, as     *)
(* long as databases and server agree on the password and no link dies     *)
(* silently.                                                               *)
Agree(c) == believes[c] <=> needsPw

CommandsEnd ==
  \A c \in Clients :
    cpc[c] # "start" /\ Agree(c) ~> cpc[c] = "done" \/ link[c] = "silent"

MutexIsReleased == \A c \in Clients : lock = c ~> lock # c

(* README.md:15, "SHA-256 integrity checks on every download": no download *)
(* is reported as good that was not compared with a checksum.              *)
EveryDownloadIsChecked ==
  \A c \in Clients : op[c] # "query" /\ result[c] = "ok" => Verified(c)

=============================================================================
