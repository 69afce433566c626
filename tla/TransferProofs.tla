--------------------------- MODULE TransferProofs ---------------------------
(***************************************************************************)
(* Proofs about Transfer, for any number of clients, files, versions and    *)
(* archives and for any of the faults.                                     *)
(***************************************************************************)
EXTENDS Transfer, FiniteSetTheorems, TLAPS

USE IdentitiesAssumption, NamesAssumption, MaxVersionAssumption,
    ChoicesAssumption

-----------------------------------------------------------------------------
(* What the operators on frames return. *)

(* A frame without content is a frame. *)
LEMMA MsgIsFrame == ASSUME NEW t \in MsgType PROVE Msg(t) \in Frame
BY DEF Msg, Frame, NoSum, Checksum, Content

(* A block read from a file makes a frame. *)
LEMMA DataIsFrame == ASSUME NEW b \in Block PROVE Data(b) \in Frame
BY DEF Data, Frame, NoSum, Checksum, Content, MsgType

(* A checksum makes a frame. *)
LEMMA EndIsFrame == ASSUME NEW k \in Checksum PROVE End(k) \in Frame
BY DEF End, Frame, Content, MsgType

(* The checksum of a file is a checksum, and never the absent one. *)
LEMMA SumIsChecksum ==
  ASSUME NEW s \in Content PROVE Sum(s) \in Checksum /\ Sum(s) # NoSum
BY DEF Sum, NoSum, Checksum

(* What a handler finds in the name of the archive. *)
LEMMA TarSumIsChecksum == ASSUME TypeOK PROVE TarSum \in Checksum
BY SumIsChecksum DEF TypeOK, TarSum, NoSum, Checksum, Content

(* Sending keeps the channels sequences of frames. *)
LEMMA SrvSendsTyped ==
  ASSUME TypeOK, NEW c \in Clients, NEW m \in Frame, SrvSends(c, m)
  PROVE  s2c' \in [Clients -> Seq(Frame)]
BY DEF TypeOK, SrvSends

(* What a client sends keeps its channel a sequence of frames. *)
LEMMA CliSendsTyped ==
  ASSUME TypeOK, NEW c \in Clients, NEW ms \in Seq(Frame), CliSends(c, ms)
  PROVE  c2s' \in [Clients -> Seq(Frame)]
BY DEF TypeOK, CliSends

(* Taking a frame from a channel, alone or with an answer in the same step, *)
(* leaves sequences of frames. *)
LEMMA PopsTyped ==
  ASSUME TypeOK, NEW c \in Clients
  PROVE  /\ c2s[c] # <<>> /\ SrvPops(c) => c2s' \in [Clients -> Seq(Frame)]
         /\ s2c[c] # <<>> /\ CliPops(c) => s2c' \in [Clients -> Seq(Frame)]
         /\ c2s[c] # <<>> => Head(c2s[c]) \in Frame
         /\ s2c[c] # <<>> => Head(s2c[c]) \in Frame
<1> DEFINE F == Frame
<1>1. c2s \in [Clients -> Seq(F)] /\ s2c \in [Clients -> Seq(F)]
  BY DEF TypeOK
<1>2. ASSUME NEW s \in Seq(F), s # <<>>
      PROVE  Tail(s) \in Seq(F) /\ Head(s) \in F
  <2> HIDE DEF F
  <2> QED BY <1>2
<1> HIDE DEF F
<1>3. c2s[c] # <<>> => Head(c2s[c]) \in F /\ Tail(c2s[c]) \in Seq(F)
  BY <1>1, <1>2
<1>4. s2c[c] # <<>> => Head(s2c[c]) \in F /\ Tail(s2c[c]) \in Seq(F)
  BY <1>1, <1>2
<1>5. c2s[c] # <<>> /\ SrvPops(c) => c2s' \in [Clients -> Seq(F)]
  BY <1>1, <1>3 DEF SrvPops
<1>6. s2c[c] # <<>> /\ CliPops(c) => s2c' \in [Clients -> Seq(F)]
  BY <1>1, <1>4 DEF CliPops
<1> QED BY <1>3, <1>4, <1>5, <1>6 DEF F

(* The content of a received frame, and what grows a file. *)
LEMMA FrameParts ==
  ASSUME NEW m \in Frame
  PROVE  m.block \in Content /\ m.sum \in Checksum
BY DEF Frame

(* A file to which a block is appended is still a sequence of blocks. *)
LEMMA ContentGrows ==
  /\ <<>> \in Content
  /\ \A s, t \in Content : s \o t \in Content
  /\ \A s \in Content, b \in Block : Append(s, b) \in Content
  /\ \A s \in Content : \A i \in 1 .. Len(s) : s[i] \in Block
BY DEF Content

(* A directory's listing has each of its files, and no others. *)
LEMMA OrdersTyped ==
  ASSUME NEW N, N \subseteq Names, NEW s \in Orders(N)
  PROVE  s \in Seq(Names) /\ Len(s) = Cardinality(N)
<1>1. Cardinality(N) \in Nat
  BY FS_Subset, FS_CardinalityType
<1>2. s \in [1 .. Cardinality(N) -> N]
  BY DEF Orders
<1> QED BY <1>1, <1>2

(* What an operator's step leaves alone. *)
LEMMA OperatorAside ==
  ASSUME Operator
  PROVE  UNCHANGED <<disk, spc, file, source, pos, lock, daemon, netVars, cliVars,
                     confVars>>
BY DEF Operator, OperatorRemovesFile, OperatorRemovesDir, OperatorGivesUp,
   OperatorRemovesTar, OperatorPresents, OperatorCopies, OperatorCopied,
   OperatorStops, Aside

(* A handler that makes an archive. *)
Tar(c) ==
  \/ SrvBuildTar(c) \/ SrvLists(c) \/ SrvTarCreate(c) \/ SrvTarWrite(c)
  \/ SrvTarDone(c) \/ SrvTarFails(c)

(* It touches archives, mutex and its own place only. *)
LEMMA TarEffect ==
  ASSUME NEW c \in Clients, Tar(c)
  PROVE  /\ UNCHANGED <<netVars, cliVars, confVars, dirVars, daemon>>
         /\ spc[c] \in {"find", "list", "create", "write"}
         /\ \/ spc' = spc
            \/ \E l \in {"list", "create", "write", "open"} :
                 spc' = [spc EXCEPT ![c] = l]
<1>1. UNCHANGED <<netVars, cliVars, confVars, dirVars, daemon>>
  BY DEF Tar, SrvBuildTar, SrvLists, SrvTarCreate, SrvTarWrite, SrvTarDone,
         SrvTarFails, diskVars
<1>2. \/ spc' = spc
      \/ \E l \in {"list", "create", "write", "open"} :
           spc' = [spc EXCEPT ![c] = l]
  BY DEF Tar, SrvBuildTar, SrvLists, SrvTarLacks, SrvTarCreate, SrvTarWrite,
         SrvTarDone, SrvTarFails, SrvGoto
<1>3. spc[c] \in {"find", "list", "create", "write"}
  BY DEF Tar, SrvBuildTar, SrvLists, SrvTarCreate, SrvTarWrite, SrvTarDone,
         SrvTarFails
<1> QED BY <1>1, <1>2, <1>3

-----------------------------------------------------------------------------
(* Type correctness. *)

(* The initial states have the right types. *)
LEMMA TypeInit == Init => TypeOK
<1> SUFFICES ASSUME Init PROVE TypeOK
  OBVIOUS
<1> USE DEF Init
<1>1. NoSum \in Checksum /\ <<>> \in Content
  BY ContentGrows DEF NoSum, Checksum
<1>2. <<>> \in Seq(Frame)
  OBVIOUS
<1>3. /\ 1 \in 1 .. MaxVersion /\ 1 \in 0 .. MaxVersion
      /\ dir \in [Names -> 0 .. MaxVersion] /\ <<>> \in Seq(Names)
  OBVIOUS
<1>4. /\ op \in [Clients -> {"install", "download", "query"}]
      /\ believes \in [Clients -> BOOLEAN]
      /\ pw \in [Clients -> {"good", "bad", "empty"}]
      /\ needsPw \in BOOLEAN /\ mpkg \in BOOLEAN
  OBVIOUS
<1> QED BY <1>1, <1>2, <1>3, <1>4 DEF TypeOK, CliPc, SrvPc

(* The request is out, or the command over. *)
LEMMA RequestsTyped ==
  ASSUME TypeOK, NEW c \in Clients, Requests(c)
  PROVE  /\ cpc' \in [Clients -> CliPc]
         /\ cliOpen' \in [Clients -> BOOLEAN]
         /\ result' \in [Clients -> {"none", "ok", "failed", "killed"}]
<1>1. CASE CliGoto(c, "recv") /\ UNCHANGED <<result, cliOpen>>
  BY <1>1 DEF CliGoto, TypeOK, CliPc
<1>2. CASE CliEnds(c, "failed")
  BY <1>2 DEF CliEnds, CliGoto, TypeOK, CliPc
<1> QED BY <1>1, <1>2 DEF Requests

(* Every step of a client keeps the types. *)
LEMMA TypeClient == ASSUME TypeOK, NEW c \in Clients, Client(c) PROVE TypeOK'
<1> USE DEF TypeOK, netVars, cliVars, srvVars, dirVars, diskVars, confVars, CliPc,
            CliGoto, CliEnds
<1>1. CASE CliConnect(c)
  <2>1. CASE daemon = "up"
    <3>1. /\ cpc' = [cpc EXCEPT ![c] = "hello"]
          /\ cliOpen' = [cliOpen EXCEPT ![c] = TRUE]
          /\ srvOpen' = [srvOpen EXCEPT ![c] = TRUE]
          /\ UNCHANGED <<result, c2s, s2c, link, out, expect,
                         srvVars, diskVars, confVars>>
      BY <1>1, <2>1 DEF CliConnect
    <3> QED BY <3>1
  <2>2. CASE daemon # "up"
    <3>1. /\ CliEnds(c, "failed")
          /\ UNCHANGED <<srvOpen, c2s, s2c, link, out, expect,
                         srvVars, diskVars, confVars>>
      BY <1>1, <2>2 DEF CliConnect
    <3> QED BY <3>1
  <2> QED BY <2>1, <2>2
<1>2. CASE CliHello(c)
  <2>1. <<Msg("KEY")>> \in Seq(Frame) /\ <<Msg("KEY"), Request(c)>> \in Seq(Frame)
    BY MsgIsFrame DEF Request, MsgType
  <2>2. c2s' \in [Clients -> Seq(Frame)] /\ s2c' \in [Clients -> Seq(Frame)]
    BY <1>2, <2>1, CliSendsTyped, PopsTyped DEF CliHello, CliGets
  <2>3. UNCHANGED <<srvOpen, link, out, expect, srvVars, diskVars, confVars>>
    BY <1>2 DEF CliHello
  <2>4. CASE believes[c]
    <3>1. CliGoto(c, "authreq") /\ UNCHANGED <<result, cliOpen>>
      BY <1>2, <2>4 DEF CliHello
    <3> QED BY <2>2, <2>3, <3>1
  <2>5. CASE ~believes[c]
    <3>1. Requests(c)
      BY <1>2, <2>5 DEF CliHello
    <3> QED BY <2>2, <2>3, <3>1, RequestsTyped
  <2> QED BY <2>4, <2>5
<1>3. CASE CliAuthRequest(c)
  <2>1. <<Password(c)>> \in Seq(Frame)
    BY MsgIsFrame DEF Password, MsgType
  <2>2. c2s' \in [Clients -> Seq(Frame)] /\ s2c' \in [Clients -> Seq(Frame)]
    BY <1>3, <2>1, CliSendsTyped, PopsTyped DEF CliAuthRequest, CliGets
  <2> QED BY <1>3, <2>2 DEF CliAuthRequest
<1>4. CASE CliAck(c)
  <2>1. <<Request(c)>> \in Seq(Frame)
    BY MsgIsFrame DEF Request, MsgType
  <2>2. c2s' \in [Clients -> Seq(Frame)] /\ s2c' \in [Clients -> Seq(Frame)]
    BY <1>4, <2>1, CliSendsTyped, PopsTyped DEF CliAck, CliGets
  <2>3. /\ Requests(c)
        /\ UNCHANGED <<srvOpen, link, out, expect, srvVars, diskVars, confVars>>
    BY <1>4 DEF CliAck
  <2> QED BY <2>2, <2>3, RequestsTyped
<1>5. CASE CliHandshakeFails(c)
  BY <1>5 DEF CliHandshakeFails
<1>6. CASE CliReply(c)
  <2>1. s2c' \in [Clients -> Seq(Frame)]
    BY <1>6, PopsTyped DEF CliReply, CliGets
  <2> QED BY <1>6, <2>1, ZenonT(60) DEF CliReply
<1>7. CASE CliData(c)
  <2>1. s2c' \in [Clients -> Seq(Frame)]
    BY <1>7, PopsTyped DEF CliData, CliGets
  <2>2. out[c] \o Head(s2c[c]).block \in Content
    BY <1>7, PopsTyped, FrameParts, ContentGrows DEF CliData, CliGets
  <2> QED BY <1>7, <2>1, <2>2 DEF CliData
<1>8. CASE CliSize(c)
  <2>1. s2c' \in [Clients -> Seq(Frame)]
    BY <1>8, PopsTyped DEF CliSize, CliGets
  <2>2. CASE mpkg /\ op[c] = "install"
    <3>1. /\ CliEnds(c, "failed")
          /\ out' = [out EXCEPT ![c] = <<>>]
          /\ UNCHANGED <<expect, c2s, srvOpen, link, srvVars, diskVars, confVars>>
      BY <1>8, <2>2 DEF CliSize
    <3> QED BY <2>1, <3>1, ContentGrows
  <2>3. CASE ~(mpkg /\ op[c] = "install")
    BY <1>8, <2>1, <2>3 DEF CliSize
  <2> QED BY <2>2, <2>3
<1>9. CASE CliError(c)
  <2>1. s2c' \in [Clients -> Seq(Frame)]
    BY <1>9, PopsTyped DEF CliError, CliGets
  <2> QED BY <1>9, <2>1, ContentGrows DEF CliError
<1>10. CASE CliEnd(c)
  <2>1. s2c' \in [Clients -> Seq(Frame)]
    BY <1>10, PopsTyped DEF CliEnd, CliGets
  <2>2. Head(s2c[c]).sum \in Checksum
    BY <1>10, PopsTyped, FrameParts DEF CliEnd, CliGets
  <2> QED BY <1>10, <2>1, <2>2 DEF CliEnd
<1>11. CASE CliLost(c)
  BY <1>11 DEF CliLost
<1>12. CASE CliVerify(c)
  <2>1. CASE expect[c] # NoSum /\ Sum(out[c]) # expect[c]
    <3>1. /\ CliEnds(c, "failed")
          /\ out' = [out EXCEPT ![c] = <<>>]
          /\ UNCHANGED <<expect, c2s, s2c, srvOpen, link,
                         srvVars, diskVars, confVars>>
      BY <1>12, <2>1 DEF CliVerify
    <3> QED BY <3>1, ContentGrows
  <2>2. CASE ~(expect[c] # NoSum /\ Sum(out[c]) # expect[c])
    <3>1. /\ CliEnds(c, "ok")
          /\ UNCHANGED <<out, expect, c2s, s2c, srvOpen, link,
                         srvVars, diskVars, confVars>>
      BY <1>12, <2>2 DEF CliVerify
    <3> QED BY <3>1
  <2> QED BY <2>1, <2>2
<1>13. CASE CliSigpipe(c)
  BY <1>13 DEF CliSigpipe
<1> QED BY <1>1, <1>2, <1>3, <1>4, <1>5, <1>6, <1>7, <1>8, <1>9, <1>10,
           <1>11, <1>12, <1>13 DEF Client

(* The end of the daemon process keeps the types. *)
LEMMA TypeDies == ASSUME TypeOK, Dies PROVE TypeOK'
BY DEF TypeOK, Dies, cliVars, dirVars, diskVars, confVars, SrvPc

(* Every step of a handler thread keeps the types; streaming needs FileInv. *)
LEMMA TypeHandler ==
  ASSUME TypeOK, FileInv, NEW c \in Clients, Handler(c) PROVE TypeOK'
<1> USE DEF netVars, cliVars, srvVars, dirVars, diskVars, confVars, SrvGoto,
            SrvCloses
<1>1. CASE SrvAccept(c)
  <2>1. s2c' \in [Clients -> Seq(Frame)]
    BY <1>1, SrvSendsTyped, MsgIsFrame DEF SrvAccept, MsgType
  <2> QED BY <1>1, <2>1 DEF SrvAccept, TypeOK, SrvPc
<1>2. CASE SrvKey(c)
  <2>1. c2s' \in [Clients -> Seq(Frame)]
    BY <1>2, PopsTyped DEF SrvKey, SrvGets
  <2>2. s2c' \in [Clients -> Seq(Frame)]
    BY <1>2, SrvSendsTyped, MsgIsFrame DEF SrvKey, MsgType, TypeOK
  <2>3. \E l \in SrvPc : spc' = [spc EXCEPT ![c] = l]
    BY <1>2 DEF SrvKey, SrvPc
  <2> QED BY <1>2, <2>1, <2>2, <2>3 DEF SrvKey, TypeOK
<1>3. CASE SrvAuth(c)
  <2>1. c2s' \in [Clients -> Seq(Frame)]
    BY <1>3, PopsTyped DEF SrvAuth
  <2>2. s2c' \in [Clients -> Seq(Frame)]
    BY <1>3, SrvSendsTyped, MsgIsFrame DEF SrvAuth, MsgType, TypeOK
  <2>3. \E l \in SrvPc : spc' = [spc EXCEPT ![c] = l]
    BY <1>3 DEF SrvAuth, SrvPc
  <2>4. srvOpen' \in [Clients -> BOOLEAN]
    BY <1>3, ZenonT(60) DEF SrvAuth, TypeOK
  <2>5. UNCHANGED <<cliOpen, link, file, source, pos, lock, quiet, daemon,
                    cliVars, diskVars, confVars>>
    BY <1>3 DEF SrvAuth
  <2>6. spc' \in [Clients -> SrvPc]
    BY <2>3 DEF TypeOK
  <2> QED BY <2>1, <2>2, <2>4, <2>5, <2>6 DEF TypeOK
<1>4. CASE SrvHangup(c)
  BY <1>4 DEF SrvHangup, TypeOK, SrvPc
<1>5. CASE SrvQuery(c)
  <2>1. c2s' \in [Clients -> Seq(Frame)]
    BY <1>5, PopsTyped DEF SrvQuery, SrvGets
  <2>2. s2c' \in [Clients -> Seq(Frame)]
    BY <1>5, SrvSendsTyped, MsgIsFrame DEF SrvQuery, MsgType
  <2> QED BY <1>5, <2>1, <2>2 DEF SrvQuery, TypeOK
<1>6. CASE SrvInstallRequest(c)
  <2>1. c2s' \in [Clients -> Seq(Frame)]
    BY <1>6, PopsTyped DEF SrvInstallRequest, SrvGets
  <2>2. s2c' \in [Clients -> Seq(Frame)]
    <3>1. Msg("INSTALL_ERROR") \in Frame
      BY MsgIsFrame DEF MsgType
    <3>2. SrvSends(c, Msg("INSTALL_ERROR")) \/ UNCHANGED s2c
      BY <1>6 DEF SrvInstallRequest
    <3> QED BY <3>1, <3>2, SrvSendsTyped DEF TypeOK
  <2>3. spc' \in [Clients -> SrvPc]
    <3>1. (\E l \in SrvPc : spc' = [spc EXCEPT ![c] = l]) \/ UNCHANGED spc
      BY <1>6 DEF SrvInstallRequest, SrvPc
    <3> QED BY <3>1, ZenonT(60) DEF TypeOK
  <2>4. UNCHANGED <<cliOpen, srvOpen, link, file, source, pos, lock, quiet, daemon,
                    cliVars, diskVars, confVars>>
    BY <1>6 DEF SrvInstallRequest
  <2> QED BY <2>1, <2>2, <2>3, <2>4 DEF TypeOK
<1>7. CASE SrvBuildTar(c)
  <2>1. UNCHANGED <<file, source, pos, daemon, netVars, cliVars, diskVars, confVars>>
    BY <1>7 DEF SrvBuildTar
  <2>2. CASE hasDir
    <3>1. /\ spc' = [spc EXCEPT ![c] = "list"] /\ lock' = c
          /\ quiet' = [quiet EXCEPT ![c] = @ /\ opc = "idle" /\ ~broken]
      BY <1>7, <2>2 DEF SrvBuildTar
    <3>2. quiet' \in [Clients -> BOOLEAN]
      BY <3>1, ZenonT(60) DEF TypeOK
    <3>3. spc' \in [Clients -> SrvPc] /\ lock' \in Clients \cup {Nobody}
      BY <3>1 DEF TypeOK, SrvPc
    <3> QED BY <2>1, <3>2, <3>3 DEF TypeOK
  <2>3. CASE ~hasDir
    <3>1. /\ spc' = [spc EXCEPT ![c] = "open"] /\ UNCHANGED lock
          /\ quiet' = [quiet EXCEPT ![c] = FALSE]
      BY <1>7, <2>3 DEF SrvBuildTar
    <3> QED BY <2>1, <3>1 DEF TypeOK, SrvPc
  <2> QED BY <2>2, <2>3
<1>8. CASE SrvTarCreate(c)
  <2>1. PICK f \in Files : /\ tarFile' = f
                           /\ disk' = [disk EXCEPT ![f] = <<>>]
                           /\ file' = [file EXCEPT ![c] = f]
    BY <1>8 DEF SrvTarCreate
  <2>2. quiet' \in [Clients -> BOOLEAN]
    BY <1>8 DEF SrvTarCreate, TypeOK
  <2>3. spc' \in [Clients -> SrvPc] /\ pos' \in [Clients -> Nat]
    BY <1>8 DEF SrvTarCreate, SrvPc, TypeOK
  <2>4. disk' \in [Files -> Content] /\ file' \in [Clients -> Files \cup {NoFile}]
    BY <2>1, ContentGrows DEF TypeOK
  <2> QED BY <1>8, <2>1, <2>2, <2>3, <2>4 DEF SrvTarCreate, dirVars, TypeOK
<1>9. CASE SrvTarWrite(c)
  <2>1. pos' \in [Clients -> Nat]
    BY <1>9 DEF SrvTarWrite, TypeOK
  <2> DEFINE n == source[c][pos[c] + 1]
  <2>2. n \in Names
    <3>1. source[c] \in Seq(Names) /\ pos[c] \in Nat /\ pos[c] < Len(source[c])
      BY <1>9 DEF SrvTarWrite, TypeOK
    <3> QED BY <3>1
  <2>3. disk' = IF dir[n] = 0 THEN disk
                ELSE [disk EXCEPT ![file[c]] = Append(@, <<dir[n], n>>)]
    BY <1>9 DEF SrvTarWrite
  <2> HIDE DEF n
  <2>4. disk' \in [Files -> Content]
    <3>1. CASE dir[n] = 0
      BY <2>3, <3>1 DEF TypeOK
    <3>2. CASE dir[n] # 0
      <4>1. <<dir[n], n>> \in Block
        BY <2>2, <3>2 DEF TypeOK, Block
      <4> QED BY <2>3, <3>2, <4>1, ContentGrows DEF TypeOK
    <3> QED BY <3>1, <3>2
  <2> QED BY <1>9, <2>1, <2>4 DEF SrvTarWrite, dirVars, TypeOK
<1>17. ASSUME SrvTarLacks(c), UNCHANGED <<pos, daemon, netVars, cliVars, diskVars, confVars>>
       PROVE  TypeOK'
  BY <1>17 DEF SrvTarLacks, TypeOK, SrvPc
<1>18. CASE SrvTarFails(c)
  BY <1>17, <1>18 DEF SrvTarFails
<1>19. CASE SrvLists(c)
  <2>1. CASE SrvTarLacks(c)
    BY <1>17, <1>19, <2>1 DEF SrvLists
  <2>2. CASE ~SrvTarLacks(c)
    <3>1. PICK s \in Orders(Listed) : source' = [source EXCEPT ![c] = s]
      BY <1>19, <2>2 DEF SrvLists
    <3>2. s \in Seq(Names)
      BY <3>1, OrdersTyped DEF Listed
    <3>3. /\ spc' = [spc EXCEPT ![c] = "create"]
          /\ UNCHANGED <<file, lock, quiet, pos, daemon, netVars, cliVars,
                         diskVars, confVars>>
      BY <1>19, <2>2 DEF SrvLists
    <3> QED BY <3>1, <3>2, <3>3 DEF TypeOK, SrvPc
  <2> QED BY <2>1, <2>2
<1>20. CASE SrvListThrows(c)
  BY <1>20, TypeDies DEF SrvListThrows
<1>10. CASE SrvTarDone(c)
  BY <1>10 DEF SrvTarDone, TypeOK, SrvPc
<1>11. CASE SrvOpen(c)
  <2>1. s2c' \in [Clients -> Seq(Frame)]
    BY <1>11, SrvSendsTyped, MsgIsFrame DEF SrvOpen, MsgType, TypeOK
  <2>2. spc' \in [Clients -> SrvPc]
    <3>1. \E l \in SrvPc : spc' = [spc EXCEPT ![c] = l]
      BY <1>11 DEF SrvOpen, SrvPc
    <3> QED BY <3>1 DEF TypeOK
  <2>3. pos' \in [Clients -> Nat] /\ file' \in [Clients -> Files \cup {NoFile}]
    <3>1. CASE tarFile = NoFile
      BY <1>11, <3>1 DEF SrvOpen, TypeOK
    <3>2. CASE tarFile # NoFile
      <4>1. /\ pos' = [pos EXCEPT ![c] = 0]
            /\ file' = [file EXCEPT ![c] = tarFile]
        BY <1>11, <3>2 DEF SrvOpen
      <4> QED BY <4>1 DEF TypeOK
    <3> QED BY <3>1, <3>2
  <2>4. UNCHANGED <<c2s, cliOpen, srvOpen, link, source, lock, quiet, daemon,
                    cliVars, diskVars, confVars>>
    BY <1>11 DEF SrvOpen
  <2> QED BY <2>1, <2>2, <2>3, <2>4 DEF TypeOK
<1>12. CASE SrvSize(c)
  <2>1. s2c' \in [Clients -> Seq(Frame)]
    BY <1>12, SrvSendsTyped, MsgIsFrame DEF SrvSize, MsgType
  <2> QED BY <1>12, <2>1 DEF SrvSize, TypeOK, SrvPc
<1>13. CASE SrvSizeThrows(c)
  BY <1>13, TypeDies DEF SrvSizeThrows
<1>14. CASE SrvStream(c)
  <2>1. s2c' \in [Clients -> Seq(Frame)]
    <3>1. CASE pos[c] < Len(disk[file[c]])
      <4>1. file[c] \in Files
        BY <1>14 DEF SrvStream, FileInv
      <4>2. disk[file[c]] \in Content /\ pos[c] + 1 \in 1 .. Len(disk[file[c]])
        BY <3>1, <4>1 DEF TypeOK, Content
      <4>3. Data(disk[file[c]][pos[c] + 1]) \in Frame
        BY <4>2, ContentGrows, DataIsFrame
      <4>4. SrvSends(c, Data(disk[file[c]][pos[c] + 1]))
        BY <1>14, <3>1 DEF SrvStream
      <4> QED BY <4>3, <4>4, SrvSendsTyped
    <3>2. CASE ~(pos[c] < Len(disk[file[c]]))
      BY <1>14, <3>2 DEF SrvStream, TypeOK
    <3> QED BY <3>1, <3>2
  <2>2. spc' \in [Clients -> SrvPc]
    <3>1. (\E l \in SrvPc : spc' = [spc EXCEPT ![c] = l]) \/ UNCHANGED spc
      BY <1>14 DEF SrvStream, SrvPc
    <3> QED BY <3>1, ZenonT(60) DEF TypeOK
  <2>3. pos' \in [Clients -> Nat]
    <3>1. CASE pos' = [pos EXCEPT ![c] = @ + 1]
      BY <3>1 DEF TypeOK
    <3>2. CASE UNCHANGED pos
      BY <3>2 DEF TypeOK
    <3> QED BY <1>14, <3>1, <3>2 DEF SrvStream
  <2>4. UNCHANGED <<c2s, cliOpen, srvOpen, link, file, source, lock, quiet, daemon,
                    cliVars, diskVars, confVars>>
    BY <1>14 DEF SrvStream
  <2> QED BY <2>1, <2>2, <2>3, <2>4 DEF TypeOK
<1>15. CASE SrvEnd(c)
  <2>1. s2c' \in [Clients -> Seq(Frame)]
    BY <1>15, SrvSendsTyped, EndIsFrame, TarSumIsChecksum DEF SrvEnd
  <2> QED BY <1>15, <2>1 DEF SrvEnd, TypeOK, SrvPc
<1>16. CASE SrvSigpipe(c)
  BY <1>16, TypeDies DEF SrvSigpipe
<1> QED BY <1>1, <1>2, <1>3, <1>4, <1>5, <1>6, <1>7, <1>8, <1>9, <1>10,
           <1>11, <1>12, <1>13, <1>14, <1>15, <1>16, <1>18, <1>19, <1>20 DEF Handler

(* Lost connections, Ctrl-C and the operator keep the types. *)
LEMMA TypeEnvironment ==
  ASSUME TypeOK, Operator \/ \E c \in Clients : LinkBreaks(c) \/ Quit(c)
  PROVE  TypeOK'
<1> USE DEF netVars, cliVars, srvVars, dirVars, diskVars, confVars
<1>1. ASSUME NEW c \in Clients, LinkBreaks(c) PROVE TypeOK'
  <2>1. PICK i \in 0 .. Len(c2s[c]), j \in 0 .. Len(s2c[c]) :
          /\ c2s' = [c2s EXCEPT ![c] = SubSeq(@, 1, i)]
          /\ s2c' = [s2c EXCEPT ![c] = SubSeq(@, 1, j)]
    BY <1>1 DEF LinkBreaks
  <2>2. c2s[c] \in Seq(Frame) /\ s2c[c] \in Seq(Frame)
    BY DEF TypeOK
  <2>3. SubSeq(c2s[c], 1, i) \in Seq(Frame) /\ SubSeq(s2c[c], 1, j) \in Seq(Frame)
    BY <2>1, <2>2
  <2>4. c2s' \in [Clients -> Seq(Frame)] /\ s2c' \in [Clients -> Seq(Frame)]
    BY <2>1, <2>3 DEF TypeOK
  <2>5. link' \in [Clients -> {"up", "reset", "silent"}]
    BY <1>1 DEF LinkBreaks, TypeOK
  <2>6. UNCHANGED <<cliOpen, srvOpen, cliVars, srvVars, diskVars, confVars>>
    BY <1>1 DEF LinkBreaks
  <2> QED BY <2>4, <2>5, <2>6 DEF TypeOK
<1>2. ASSUME NEW c \in Clients, Quit(c) PROVE TypeOK'
  BY <1>2 DEF Quit, CliEnds, CliGoto, CliPc, TypeOK
<1>3. ASSUME Disturb PROVE quiet' \in [Clients -> BOOLEAN]
  BY <1>3 DEF Disturb, TypeOK
<1>4. ASSUME Operator PROVE TypeOK'
  <2>1. UNCHANGED <<disk, spc, file, source, pos, lock, daemon, netVars, cliVars,
                    confVars>>
    BY <1>4, OperatorAside
  <2>2. /\ quiet' \in [Clients -> BOOLEAN] /\ tarFile' \in Files \cup {NoFile}
        /\ hasDir' \in BOOLEAN /\ broken' \in BOOLEAN
        /\ dir' \in [Names -> 0 .. MaxVersion] /\ version' \in 1 .. MaxVersion
        /\ opc' \in {"idle", "remove", "tar", "copy"}
    <3> USE DEF TypeOK
    <3>1. CASE OperatorRemovesFile
      <4>1. PICK n \in Listed : dir' = [dir EXCEPT ![n] = 0]
        BY <3>1 DEF OperatorRemovesFile
      <4>2. dir' \in [Names -> 0 .. MaxVersion]
        BY <4>1 DEF Listed
      <4>3. /\ Disturb /\ opc' = "remove"
            /\ UNCHANGED <<tarFile, hasDir, version, broken>>
        BY <3>1 DEF OperatorRemovesFile
      <4> QED BY <1>3, <4>2, <4>3
    <3>2. CASE OperatorRemovesDir
      BY <1>3, <3>2 DEF OperatorRemovesDir
    <3>3. CASE OperatorRemovesTar
      BY <1>3, <3>3 DEF OperatorRemovesTar
    <3>4. CASE OperatorCopies
      BY <1>3, <3>4 DEF OperatorCopies
    <3>5. CASE OperatorGivesUp
      BY <3>5 DEF OperatorGivesUp
    <3>6. CASE OperatorPresents
      BY <3>6 DEF OperatorPresents
    <3>7. CASE OperatorCopied \/ OperatorStops
      BY <3>7 DEF OperatorCopied, OperatorStops
    <3> QED BY <1>4, <3>1, <3>2, <3>3, <3>4, <3>5, <3>6, <3>7 DEF Operator
  <2> QED BY <2>1, <2>2 DEF TypeOK
<1> QED BY <1>1, <1>2, <1>4

-----------------------------------------------------------------------------
(* Files are open where they are used. *)

(* A handler that reads or writes a file has it open, whatever the step. *)
LEMMA FileStep == ASSUME TypeOK, FileInv, [Next]_vars PROVE FileInv'
<1> USE DEF netVars, cliVars, srvVars, dirVars, diskVars, confVars, SrvGoto
<1>1. ASSUME UNCHANGED <<spc, file>> PROVE FileInv'
  BY <1>1 DEF FileInv
<1>2. ASSUME NEW c \in Clients, Client(c) PROVE UNCHANGED <<spc, file>>
  BY <1>2 DEF Client, CliConnect, CliHello, CliAuthRequest, CliAck,
     CliHandshakeFails, CliReply, CliData, CliSize, CliError, CliEnd, CliLost,
     CliVerify, CliSigpipe
<1>3. ASSUME NEW c \in Clients, LinkBreaks(c) \/ Quit(c)
      PROVE  UNCHANGED <<spc, file>>
  BY <1>3 DEF LinkBreaks, Quit
<1>4. ASSUME Operator PROVE UNCHANGED <<spc, file>>
  BY <1>4, OperatorAside
<1>5. ASSUME Finished \/ UNCHANGED vars PROVE UNCHANGED <<spc, file>>
  BY <1>5 DEF Finished, vars
<1>6. ASSUME NEW c \in Clients, Handler(c) PROVE FileInv'
  <2>1. CASE Dies
    BY <2>1 DEF Dies, FileInv
  <2>2. CASE \/ SrvAccept(c) \/ SrvKey(c) \/ SrvAuth(c) \/ SrvHangup(c)
             \/ SrvQuery(c) \/ SrvInstallRequest(c) \/ SrvBuildTar(c)
    <3>1. file' = file
      BY <2>2 DEF SrvAccept, SrvKey, SrvAuth, SrvHangup, SrvQuery,
                  SrvInstallRequest, SrvBuildTar
    <3>2. \/ spc' = spc
          \/ \E l \in SrvPc \ {"write", "size", "stream"} :
               spc' = [spc EXCEPT ![c] = l]
      BY <2>2 DEF SrvAccept, SrvKey, SrvAuth, SrvHangup, SrvQuery, SrvCloses,
                  SrvInstallRequest, SrvBuildTar, SrvPc
    <3> QED BY <3>1, <3>2 DEF FileInv, TypeOK
  <2>3. CASE SrvTarCreate(c)
    BY <2>3 DEF SrvTarCreate, FileInv, TypeOK
  <2>4. CASE SrvTarWrite(c)
    BY <2>4 DEF SrvTarWrite, FileInv
  <2>5. CASE SrvTarDone(c) \/ SrvTarFails(c) \/ (SrvLists(c) /\ SrvTarLacks(c))
    <3>1. spc' = [spc EXCEPT ![c] = "open"] /\ file' = [file EXCEPT ![c] = NoFile]
      BY <2>5 DEF SrvTarDone, SrvTarFails, SrvTarLacks
    <3> QED BY <3>1 DEF FileInv, TypeOK
  <2>10. CASE SrvLists(c) /\ ~SrvTarLacks(c)
    <3>1. spc' = [spc EXCEPT ![c] = "create"] /\ file' = file
      BY <2>10 DEF SrvLists
    <3> QED BY <3>1 DEF FileInv, TypeOK
  <2>6. CASE SrvOpen(c)
    <3>1. CASE tarFile = NoFile
      <4>1. spc' = [spc EXCEPT ![c] = "loop"] /\ file' = file
        BY <2>6, <3>1 DEF SrvOpen
      <4> QED BY <4>1 DEF FileInv, TypeOK
    <3>2. CASE tarFile # NoFile
      <4>1. /\ spc' = [spc EXCEPT ![c] = "size"]
            /\ file' = [file EXCEPT ![c] = tarFile]
        BY <2>6, <3>2 DEF SrvOpen
      <4> QED BY <3>2, <4>1 DEF FileInv, TypeOK
    <3> QED BY <3>1, <3>2
  <2>7. CASE SrvSize(c)
    BY <2>7 DEF SrvSize, FileInv, TypeOK
  <2>8. CASE SrvStream(c)
    <3>1. file' = file /\ (spc' = spc \/ spc' = [spc EXCEPT ![c] = "end"])
      BY <2>8 DEF SrvStream
    <3> QED BY <3>1 DEF FileInv, TypeOK
  <2>9. CASE SrvEnd(c)
    BY <2>9 DEF SrvEnd, FileInv, TypeOK
  <2> QED BY <1>6, <2>1, <2>2, <2>3, <2>4, <2>5, <2>6, <2>7, <2>8, <2>9,
             <2>10 DEF Handler, SrvListThrows, SrvSizeThrows, SrvSigpipe
<1> QED BY <1>1, <1>2, <1>3, <1>4, <1>5, <1>6 DEF Next

(* Every step keeps the types. *)
LEMMA TypeStep == ASSUME TypeOK, FileInv, [Next]_vars PROVE TypeOK'
<1>1. CASE \E c \in Clients : Client(c)
  BY <1>1, TypeClient
<1>2. CASE \E c \in Clients : Handler(c)
  BY <1>2, TypeHandler
<1>3. CASE Operator \/ \E c \in Clients : LinkBreaks(c) \/ Quit(c)
  BY <1>3, TypeEnvironment
<1>4. CASE Finished \/ UNCHANGED vars
  BY <1>4 DEF Finished, TypeOK, vars, netVars, cliVars, srvVars, dirVars,
     diskVars, confVars
<1> QED BY <1>1, <1>2, <1>3, <1>4 DEF Next

(* TypeOK is not inductive alone: a handler streams from the file it has   *)
(* open, so TypeOK is proved together with FileInv.                        *)
THEOREM TypeCorrect == Spec => []TypeOK
<1>1. Init => TypeOK /\ FileInv
  BY TypeInit DEF Init, FileInv
<1>2. TypeOK /\ FileInv /\ [Next]_vars => (TypeOK /\ FileInv)'
  BY TypeStep, FileStep
<1> QED BY <1>1, <1>2, PTL DEF Spec

-----------------------------------------------------------------------------
(* The archive.  serverSide is all that MutexInv, DirInv and ArchiveInv    *)
(* speak of; no client step touches it.                                    *)

serverSide == <<spc, file, source, pos, lock, quiet, disk, tarFile, dirVars>>

(* No step of a client, of a link or of a user changes what the archive *)
(* invariant speaks of. *)
LEMMA ClientLeavesServer ==
  ASSUME \E c \in Clients : Client(c) \/ LinkBreaks(c) \/ Quit(c)
  PROVE  UNCHANGED serverSide
BY DEF serverSide, srvVars, diskVars, Client, CliConnect, CliHello,
   CliAuthRequest, CliAck, CliHandshakeFails, CliReply, CliData, CliSize,
   CliError, CliEnd, CliLost, CliVerify, CliSigpipe, LinkBreaks, Quit

(* Stuttering, and the end of all commands, change nothing of it either. *)
LEMMA IdleLeavesServer ==
  ASSUME Finished \/ UNCHANGED vars PROVE UNCHANGED serverSide
BY DEF serverSide, srvVars, diskVars, Finished, vars

(* Before an archive is asked for a handler only talks, and a handler that *)
(* streams changes nothing that others see.                                *)
Talk(c) ==
  \/ SrvAccept(c) \/ SrvKey(c) \/ SrvAuth(c) \/ SrvHangup(c) \/ SrvQuery(c)
  \/ SrvInstallRequest(c)

Stream(c) == SrvOpen(c) \/ SrvSize(c) \/ SrvStream(c) \/ SrvEnd(c)

(* A handler talks, streams, runs tar or takes the daemon down. *)
LEMMA HandlerCases ==
  ASSUME NEW c \in Clients, Handler(c)
  PROVE  Talk(c) \/ Stream(c) \/ Tar(c) \/ Dies
BY DEF Handler, Talk, Stream, Tar, SrvListThrows, SrvSizeThrows, SrvSigpipe

(* A handler that talks touches neither files nor mutex. *)
LEMMA TalkEffect ==
  ASSUME NEW c \in Clients, Talk(c)
  PROVE  /\ UNCHANGED <<file, source, pos, lock, quiet, disk, tarFile, dirVars>>
         /\ \/ spc' = spc
            \/ \E l \in SrvPc \ Serving :
                 spc' = [spc EXCEPT ![c] = l]
<1>1. UNCHANGED <<file, source, pos, lock, quiet, disk, tarFile, dirVars>>
  BY DEF Talk, SrvAccept, SrvKey, SrvAuth, SrvHangup, SrvQuery,
         SrvInstallRequest, diskVars
<1>2. \/ spc' = spc
      \/ \E l \in SrvPc \ Serving :
           spc' = [spc EXCEPT ![c] = l]
  BY DEF Talk, SrvAccept, SrvKey, SrvAuth, SrvHangup, SrvQuery, SrvCloses,
         SrvInstallRequest, SrvGoto, SrvPc, Serving
<1> QED BY <1>1, <1>2

(* A handler that streams changes only its own place, its file and position. *)
LEMMA StreamEffect ==
  ASSUME NEW c \in Clients, Stream(c)
  PROVE  /\ spc[c] \in {"open", "size", "stream", "end"}
         /\ UNCHANGED <<source, lock, quiet, disk, tarFile, dirVars>>
         /\ \/ spc' = spc
            \/ \E l \in {"loop", "size", "stream", "end"} :
                 spc' = [spc EXCEPT ![c] = l]
<1>1. UNCHANGED <<source, lock, quiet, disk, tarFile, dirVars>>
  BY DEF Stream, SrvOpen, SrvSize, SrvStream, SrvEnd, diskVars
<1>2. \/ spc' = spc
      \/ \E l \in {"loop", "size", "stream", "end"} :
           spc' = [spc EXCEPT ![c] = l]
  BY DEF Stream, SrvOpen, SrvSize, SrvStream, SrvEnd, SrvGoto
<1>3. spc[c] \in {"open", "size", "stream", "end"}
  BY DEF Stream, SrvOpen, SrvSize, SrvStream, SrvEnd
<1> QED BY <1>1, <1>2, <1>3

(* Whoever runs tar holds the registry mutex, whatever the step. *)
LEMMA MutexStep == ASSUME TypeOK, MutexInv, [Next]_vars PROVE MutexInv'
<1>1. ASSUME UNCHANGED <<spc, lock>> PROVE MutexInv'
  BY <1>1 DEF MutexInv
<1>2. ASSUME NEW c \in Clients, Handler(c) PROVE MutexInv'
  <2>1. CASE Talk(c)
    <3>1. CASE spc' = spc
      BY <1>1, <2>1, <3>1, TalkEffect
    <3>2. ASSUME NEW l \in SrvPc \ Serving,
                 spc' = [spc EXCEPT ![c] = l]
          PROVE  MutexInv'
      <4>1. l \notin {"list", "create", "write"} /\ lock' = lock
        BY <2>1, TalkEffect DEF Serving
      <4> QED BY <3>2, <4>1 DEF MutexInv, TypeOK
    <3> QED BY <2>1, <3>1, <3>2, TalkEffect
  <2>2. CASE Stream(c)
    <3>1. CASE spc' = spc
      BY <1>1, <2>2, <3>1, StreamEffect
    <3>2. ASSUME NEW l \in {"loop", "size", "stream", "end"},
                 spc' = [spc EXCEPT ![c] = l]
          PROVE  MutexInv'
      <4>1. lock' = lock
        BY <2>2, StreamEffect
      <4> QED BY <3>2, <4>1 DEF MutexInv, TypeOK
    <3> QED BY <2>2, <3>1, <3>2, StreamEffect
  <2>3. CASE SrvBuildTar(c)
    <3>1. CASE ~hasDir
      <4>1. spc' = [spc EXCEPT ![c] = "open"] /\ lock' = lock
        BY <2>3, <3>1 DEF SrvBuildTar, SrvGoto
      <4> QED BY <4>1 DEF MutexInv, TypeOK
    <3>2. CASE hasDir
      <4>1. spc' = [spc EXCEPT ![c] = "list"] /\ lock' = c /\ lock = Nobody
        BY <2>3, <3>2 DEF SrvBuildTar, SrvGoto
      <4> QED BY <4>1, IdentitiesAssumption DEF MutexInv, TypeOK
    <3> QED BY <3>1, <3>2
  <2>4. CASE SrvTarDone(c) \/ SrvTarFails(c) \/ (SrvLists(c) /\ SrvTarLacks(c))
    <3>1. /\ spc' = [spc EXCEPT ![c] = "open"] /\ lock' = Nobody
          /\ spc[c] \in {"list", "create", "write"}
      BY <2>4 DEF SrvTarDone, SrvTarFails, SrvLists, SrvTarLacks, SrvGoto
    <3> QED BY <3>1 DEF MutexInv, TypeOK
  <2>5. CASE SrvTarCreate(c) \/ (SrvLists(c) /\ ~SrvTarLacks(c))
    <3>1. /\ \E l \in {"create", "write"} : spc' = [spc EXCEPT ![c] = l]
          /\ lock' = lock /\ spc[c] \in {"list", "create"}
      BY <2>5 DEF SrvTarCreate, SrvLists, SrvGoto
    <3> QED BY <3>1 DEF MutexInv, TypeOK
  <2>6. CASE SrvTarWrite(c)
    BY <1>1, <2>6 DEF SrvTarWrite
  <2>7. CASE Dies
    BY <2>7 DEF Dies, MutexInv
  <2> QED BY <1>2, <2>1, <2>2, <2>3, <2>4, <2>5, <2>6, <2>7, HandlerCases DEF Tar
<1>3. ASSUME Operator PROVE MutexInv'
  BY <1>1, <1>3, OperatorAside
<1> QED BY <1>1, <1>2, <1>3, ClientLeavesServer, IdleLeavesServer
        DEF Next, serverSide

(* What an operator's step leaves shows that there is one. *)
LEMMA OperatorShows == ASSUME TypeOK, DirInv, Operator PROVE Operated'
<1> USE DEF Operated, DirInv, TypeOK
<1>1. CASE OperatorRemovesFile \/ OperatorRemovesDir \/ OperatorGivesUp
  BY <1>1 DEF OperatorRemovesFile, OperatorRemovesDir, OperatorGivesUp
<1>2. CASE OperatorRemovesTar
  BY <1>2 DEF OperatorRemovesTar
<1>3. CASE OperatorPresents \/ OperatorCopies \/ OperatorCopied
  BY <1>3 DEF OperatorPresents, OperatorCopies, OperatorCopied
<1>4. CASE OperatorStops
  BY <1>4 DEF OperatorStops
<1> QED BY <1>1, <1>2, <1>3, <1>4 DEF Operator

(* No thread of the daemon touches the package directory. *)
LEMMA HandlerLeavesDir ==
  ASSUME NEW c \in Clients, Handler(c) PROVE UNCHANGED dirVars
<1>1. CASE Dies
  BY <1>1 DEF Dies, diskVars
<1> QED BY <1>1, HandlerCases, TalkEffect, StreamEffect, TarEffect

(* What an operator's commands leave in the directory, whatever the step. *)
LEMMA DirStep == ASSUME TypeOK, DirInv, [Next]_vars PROVE DirInv'
<1>1. ASSUME UNCHANGED dirVars PROVE DirInv'
  BY <1>1 DEF dirVars, DirInv
<1>2. CASE Operator
  <2> USE DEF DirInv, TypeOK
  <2>1. CASE OperatorRemovesFile
    <3>1. hasDir /\ hasDir' /\ opc' = "remove"
      BY <2>1 DEF OperatorRemovesFile, Listed
    <3> QED BY <3>1
  <2>2. CASE OperatorRemovesDir
    <3>1. dir' = dir /\ ~hasDir' /\ opc' = "tar" /\ \A n \in Names : dir[n] = 0
      BY <2>2 DEF OperatorRemovesDir, Listed
    <3> QED BY <3>1
  <2>3. CASE OperatorGivesUp
    BY <2>3 DEF OperatorGivesUp
  <2>4. CASE OperatorRemovesTar
    BY <2>4 DEF OperatorRemovesTar
  <2>5. CASE OperatorPresents
    BY <2>5 DEF OperatorPresents
  <2>6. CASE OperatorCopies
    BY <2>6 DEF OperatorCopies
  <2>7. CASE OperatorCopied
    <3>1. /\ dir = [n \in Names |-> version]
          /\ UNCHANGED <<dir, version, hasDir>> /\ hasDir /\ opc' = "idle"
      BY <2>7 DEF OperatorCopied
    <3> QED BY <3>1
  <2>8. CASE OperatorStops
    BY <2>8 DEF OperatorStops
  <2> QED BY <1>2, <2>1, <2>2, <2>3, <2>4, <2>5, <2>6, <2>7, <2>8 DEF Operator
<1> QED BY <1>1, <1>2, HandlerLeavesDir, ClientLeavesServer, IdleLeavesServer
        DEF Next, serverSide

(* The first p of the files s of version v, and what the next one makes of *)
(* them. *)
Begun(v, s, p) == [k \in 1 .. p |-> <<v, s[k]>>]

LEMMA GrowByOne ==
  ASSUME NEW v \in Nat, NEW s \in Seq(Names), NEW p \in Nat, p < Len(s)
  PROVE  Append(Begun(v, s, p), <<v, s[p + 1]>>) = Begun(v, s, p + 1)
<1> DEFINE t == Begun(v, s, p)
<1>1. \A k \in 1 .. p + 1 : s[k] \in Names
  OBVIOUS
<1>2. t \in Seq(Nat \X Names) /\ Len(t) = p /\ \A k \in 1 .. p : t[k] = <<v, s[k]>>
  BY <1>1 DEF Begun
<1> HIDE DEF t
<1>3. /\ Append(t, <<v, s[p + 1]>>) \in Seq(Nat \X Names)
      /\ Len(Append(t, <<v, s[p + 1]>>)) = p + 1
      /\ \A k \in 1 .. p + 1 : Append(t, <<v, s[p + 1]>>)[k] = <<v, s[k]>>
  BY <1>1, <1>2
<1> QED BY <1>3 DEF t, Begun

(* What ArchiveInv says of one handler. *)
Packed(c) ==
  quiet[c] => /\ spc[c] \in {"list", "create"} => \E v \in 1 .. MaxVersion : Uniform(v)
              /\ spc[c] \in {"create", "write"} => source[c] \in Orders(Names)
              /\ spc[c] = "write" => Growing(c)
              /\ spc[c] \in {"open", "size", "stream", "end"} => Whole

(* A handler that changes neither directory nor archives, and does not go  *)
(* over to writing, spoils no other's. *)
LEMMA OthersKept ==
  ASSUME TypeOK, ArchiveInv, NEW c \in Clients, UNCHANGED <<disk, tarFile, dirVars>>,
         spc'[c] # "write",
         \A x \in Clients \ {c} :
           UNCHANGED <<spc[x], quiet[x], file[x], pos[x], source[x]>>
  PROVE  /\ Whole => Whole'
         /\ \A x \in Clients \ {c} : Packed(x)'
<1>1. UNCHANGED <<hasDir, dir>>
  BY DEF dirVars
<1>2. Whole => Whole'
  BY DEF Whole, Complete
<1>3. ASSUME NEW x \in Clients \ {c} PROVE Packed(x)'
  <2>1. Packed(x)
    BY DEF ArchiveInv, Packed
  <2>3. \A v \in 1 .. MaxVersion : Uniform(v) => Uniform(v)'
    BY <1>1 DEF Uniform
  <2>4. UNCHANGED <<file[x], pos[x], source[x], tarFile, disk>>
    OBVIOUS
  <2>2. ASSUME Growing(x) PROVE Growing(x)'
    <3>1. PICK v \in 1 .. MaxVersion :
            Uniform(v) /\ disk[file[x]] = [k \in 1 .. pos[x] |-> <<v, source[x][k]>>]
      BY <2>2 DEF Growing
    <3>2. Uniform(v)' /\ disk'[file'[x]] = [k \in 1 .. pos'[x] |-> <<v, source'[x][k]>>]
      BY <2>3, <2>4, <3>1
    <3>3. tarFile' = file'[x] /\ pos'[x] <= Len(source'[x])
      BY <2>2, <2>4 DEF Growing
    <3> QED BY <3>2, <3>3 DEF Growing
  <2> QED BY <1>2, <2>1, <2>2, <2>3 DEF Packed
<1> QED BY <1>2, <1>3

(* While tar writes for one handler, no other is both served and quiet. *)
LEMMA WritesAlone ==
  ASSUME MutexInv, ArchiveInv, NEW c \in Clients, spc[c] = "write"
  PROVE  \A x \in Clients \ {c} : ~(quiet[x] /\ spc[x] \in Serving)
BY DEF ArchiveInv, MutexInv, Whole, Serving

(* An undisturbed archive grows file by file and then stays whole. *)
LEMMA ArchiveStep ==
  ASSUME TypeOK, FileInv, MutexInv, DirInv, ArchiveInv, [Next]_vars
  PROVE  ArchiveInv'
<1> SUFFICES ASSUME NEW x \in Clients PROVE Packed(x)'
  BY DEF ArchiveInv, Packed
<1>1. ASSUME UNCHANGED serverSide PROVE Packed(x)'
  <2>1. UNCHANGED <<spc, file, source, pos, quiet, disk, tarFile, hasDir, dir>>
    BY <1>1 DEF serverSide, dirVars
  <2>2. \A v : Uniform(v) => Uniform(v)'
    BY <2>1 DEF Uniform
  <2>3. Growing(x) => Growing(x)'
    BY <2>1, <2>2 DEF Growing
  <2>4. Whole => Whole'
    BY <2>1 DEF Whole
  <2>5. Packed(x)
    BY DEF ArchiveInv, Packed
  <2> QED BY <2>1, <2>2, <2>3, <2>4, <2>5 DEF Packed
<1>2. ASSUME NEW c \in Clients, Handler(c) PROVE Packed(x)'
  <2>1. CASE Talk(c)
    <3>1. CASE spc' = spc
      BY <1>1, <2>1, <3>1, TalkEffect DEF serverSide
    <3>2. ASSUME NEW l \in SrvPc \ Serving, spc' = [spc EXCEPT ![c] = l]
          PROVE  Packed(x)'
      <4>1. /\ UNCHANGED <<file, source, pos, quiet, disk, tarFile, dirVars>>
            /\ spc'[c] = l /\ \A y \in Clients \ {c} : spc'[y] = spc[y]
        BY <2>1, <3>2, TalkEffect DEF TypeOK
      <4>2. x # c => Packed(x)'
        BY <4>1, OthersKept DEF Serving
      <4>3. Packed(c)'
        BY <4>1 DEF Packed, Serving
      <4> QED BY <4>2, <4>3
    <3> QED BY <2>1, <3>1, <3>2, TalkEffect
  <2>2. CASE Stream(c)
    <3>1. UNCHANGED <<source, quiet, disk, tarFile, dirVars>>
      BY <2>2, StreamEffect
    <3>2. /\ \A y \in Clients \ {c} : spc'[y] = spc[y]
          /\ spc'[c] \in {"open", "loop", "size", "stream", "end"}
          /\ spc[c] \in {"open", "size", "stream", "end"}
      <4>1. CASE spc' = spc
        BY <2>2, <4>1, StreamEffect
      <4>2. ASSUME NEW l \in {"loop", "size", "stream", "end"},
                   spc' = [spc EXCEPT ![c] = l]
            PROVE  /\ \A y \in Clients \ {c} : spc'[y] = spc[y]
                   /\ spc'[c] \in {"open", "loop", "size", "stream", "end"}
        BY <4>2 DEF TypeOK
      <4> QED BY <2>2, <4>1, <4>2, StreamEffect
    <3>3. \A y \in Clients \ {c} : file'[y] = file[y] /\ pos'[y] = pos[y]
      <4>1. CASE SrvOpen(c)
        BY <4>1 DEF SrvOpen, TypeOK
      <4>2. CASE SrvSize(c)
        BY <4>2 DEF SrvSize
      <4>3. CASE SrvStream(c)
        BY <4>3 DEF SrvStream, TypeOK
      <4>4. CASE SrvEnd(c)
        BY <4>4 DEF SrvEnd, TypeOK
      <4> QED BY <2>2, <4>1, <4>2, <4>3, <4>4 DEF Stream
    <3>4. (Whole => Whole') /\ (x # c => Packed(x)')
      BY <3>1, <3>2, <3>3, OthersKept
    <3>5. Packed(c)'
      BY <3>1, <3>2, <3>4 DEF ArchiveInv, Packed
    <3> QED BY <3>4, <3>5
  <2>3. CASE SrvBuildTar(c)
    <3>1. UNCHANGED <<file, source, pos, disk, tarFile, dirVars>>
      BY <2>3 DEF SrvBuildTar, diskVars
    <3>2. CASE hasDir
      <4>1. /\ spc' = [spc EXCEPT ![c] = "list"]
            /\ quiet' = [quiet EXCEPT ![c] = @ /\ opc = "idle" /\ ~broken]
        BY <2>3, <3>2 DEF SrvBuildTar, SrvGoto
      <4>2. /\ \A y \in Clients \ {c} : UNCHANGED <<spc[y], quiet[y]>>
            /\ spc'[c] = "list"
        BY <4>1 DEF TypeOK
      <4>3. quiet'[c] => opc = "idle" /\ ~broken
        BY <4>1, ZenonT(60) DEF TypeOK
      <4>4. x # c => Packed(x)'
        BY <3>1, <4>2, OthersKept
      <4>5. quiet'[c] => Uniform(version)'
        BY <3>1, <3>2, <4>3 DEF DirInv, Uniform, dirVars
      <4>6. version \in 1 .. MaxVersion /\ version' = version
        BY <3>1 DEF TypeOK, dirVars
      <4>7. Packed(c)'
        BY <4>2, <4>5, <4>6 DEF Packed, Uniform
      <4> QED BY <4>4, <4>7
    <3>3. CASE ~hasDir
      <4>1. /\ spc' = [spc EXCEPT ![c] = "open"]
            /\ quiet' = [quiet EXCEPT ![c] = FALSE]
        BY <2>3, <3>3 DEF SrvBuildTar, SrvGoto
      <4>2. /\ \A y \in Clients \ {c} : UNCHANGED <<spc[y], quiet[y]>>
            /\ spc'[c] = "open" /\ ~quiet'[c]
        BY <4>1 DEF TypeOK
      <4>3. x # c => Packed(x)'
        BY <3>1, <4>2, OthersKept
      <4> QED BY <4>2, <4>3 DEF Packed
    <3> QED BY <3>2, <3>3
  <2>4. CASE SrvTarFails(c) \/ (SrvLists(c) /\ SrvTarLacks(c))
    <3>1. SrvTarLacks(c) /\ UNCHANGED <<pos, disk, tarFile, dirVars>>
      BY <2>4 DEF SrvTarFails, SrvLists, diskVars
    <3>2. /\ \A y \in Clients \ {c} :
               UNCHANGED <<spc[y], quiet[y], file[y], pos[y], source[y]>>
          /\ spc'[c] = "open" /\ ~quiet'[c]
      BY <3>1 DEF SrvTarLacks, SrvGoto, TypeOK
    <3>3. x # c => Packed(x)'
      BY <3>1, <3>2, OthersKept
    <3> QED BY <3>2, <3>3 DEF Packed
  <2>5. CASE SrvLists(c) /\ ~SrvTarLacks(c)
    <3>1. /\ UNCHANGED <<file, quiet, pos, disk, tarFile, dirVars>>
          /\ spc' = [spc EXCEPT ![c] = "create"] /\ spc[c] = "list"
          /\ \E s \in Orders(Listed) : source' = [source EXCEPT ![c] = s]
      BY <2>5 DEF SrvLists, SrvGoto, diskVars
    <3>2. /\ \A y \in Clients \ {c} : UNCHANGED <<spc[y], source[y]>>
          /\ spc'[c] = "create" /\ source'[c] \in Orders(Listed)
      BY <3>1 DEF TypeOK
    <3>3. x # c => Packed(x)'
      BY <3>1, <3>2, OthersKept
    <3>4. ASSUME quiet[c] PROVE Packed(c)'
      <4>1. PICK v \in 1 .. MaxVersion : Uniform(v)
        BY <3>1, <3>4 DEF ArchiveInv
      <4>2. Listed = Names
        BY <4>1 DEF Listed, Uniform
      <4>3. Uniform(v)'
        BY <3>1, <4>1 DEF Uniform, dirVars
      <4> QED BY <3>2, <4>1, <4>2, <4>3 DEF Packed
    <3> QED BY <3>1, <3>3, <3>4 DEF Packed
  <2>6. CASE SrvTarCreate(c)
    <3>1. PICK f \in Files : /\ tarFile' = f
                             /\ disk' = [disk EXCEPT ![f] = <<>>]
                             /\ file' = [file EXCEPT ![c] = f]
      BY <2>6 DEF SrvTarCreate
    <3>2. /\ spc[c] = "create" /\ spc' = [spc EXCEPT ![c] = "write"]
          /\ pos' = [pos EXCEPT ![c] = 0] /\ UNCHANGED <<source, dirVars>>
          /\ quiet' = [y \in Clients |-> quiet[y] /\ (y = c \/ spc[y] \notin Serving)]
      BY <2>6 DEF SrvTarCreate, SrvGoto
    <3>3. x # c => ~(quiet'[x] /\ spc'[x] \in Serving)
      BY <3>2 DEF TypeOK
    <3>4. ASSUME quiet'[c] PROVE Packed(c)'
      <4>1. quiet[c]
        BY <3>2, <3>4
      <4>2. PICK v \in 1 .. MaxVersion : Uniform(v)
        BY <3>2, <4>1 DEF ArchiveInv
      <4>3. source'[c] \in Orders(Names) /\ spc'[c] = "write" /\ pos'[c] = 0
        BY <3>2, <4>1 DEF ArchiveInv, TypeOK
      <4>4. Uniform(v)'
        BY <3>2, <4>2 DEF Uniform, dirVars
      <4>5. file'[c] = f /\ disk'[f] = <<>> /\ source'[c] \in Seq(Names)
        BY <3>1, <3>2 DEF TypeOK
      <4>6. disk'[f] = [k \in 1 .. 0 |-> <<v, source'[c][k]>>]
        BY <4>5
      <4>7. 0 <= Len(source'[c])
        BY <4>5
      <4>8. Growing(c)'
        BY <3>1, <4>3, <4>4, <4>5, <4>6, <4>7 DEF Growing
      <4> QED BY <4>3, <4>8 DEF Packed
    <3>5. Packed(c)'
      BY <3>4 DEF Packed
    <3> QED BY <3>3, <3>5 DEF Packed, Serving
  <2>7. CASE SrvTarWrite(c)
    <3> DEFINE n == source[c][pos[c] + 1]
    <3>1. /\ spc[c] = "write" /\ pos[c] < Len(source[c])
          /\ UNCHANGED <<spc, file, source, quiet, tarFile, dirVars>>
          /\ pos' = [pos EXCEPT ![c] = @ + 1]
          /\ disk' = IF dir[n] = 0 THEN disk
                     ELSE [disk EXCEPT ![file[c]] = Append(@, <<dir[n], n>>)]
      BY <2>7 DEF SrvTarWrite
    <3>2. \A y \in Clients \ {c} : ~(quiet[y] /\ spc[y] \in Serving)
      BY <3>1, WritesAlone
    <3>3. source[c] \in Seq(Names) /\ pos[c] \in Nat /\ n \in Names
      <4>1. source[c] \in Seq(Names) /\ pos[c] \in Nat
        BY DEF TypeOK
      <4> QED BY <3>1, <4>1
    <3> HIDE DEF n
    <3>4. ASSUME quiet[c] PROVE Growing(c)'
      <4>1. PICK v \in 1 .. MaxVersion :
              /\ Uniform(v)
              /\ disk[file[c]] = Begun(v, source[c], pos[c])
        BY <3>1, <3>4 DEF ArchiveInv, Growing, Begun
      <4>2. tarFile = file[c] /\ file[c] \in Files
        BY <3>1, <3>4 DEF ArchiveInv, Growing, FileInv
      <4>3. dir[n] = v /\ v \in Nat /\ v # 0
        BY <3>3, <4>1 DEF Uniform
      <4>4. disk' = [disk EXCEPT ![file[c]] = Append(@, <<v, n>>)]
        BY <3>1, <4>3
      <4>5. disk'[file[c]] = Append(Begun(v, source[c], pos[c]), <<v, n>>)
        BY <4>1, <4>2, <4>4 DEF TypeOK
      <4>6. disk'[file[c]] = Begun(v, source[c], pos[c] + 1)
        <5>1. pos[c] < Len(source[c])
          BY <3>1
        <5>2. Append(Begun(v, source[c], pos[c]), <<v, source[c][pos[c] + 1]>>)
                = Begun(v, source[c], pos[c] + 1)
          BY <3>3, <4>3, <5>1, GrowByOne
        <5> QED BY <4>5, <5>2 DEF n
      <4>7. pos'[c] = pos[c] + 1 /\ pos[c] + 1 <= Len(source[c])
        BY <3>1, <3>3 DEF TypeOK
      <4>8. Uniform(v)'
        BY <3>1, <4>1 DEF Uniform, dirVars
      <4>9. /\ tarFile' = file'[c] /\ file'[c] = file[c] /\ source' = source
            /\ pos'[c] <= Len(source'[c])
        BY <3>1, <4>2, <4>7
      <4>10. disk'[file'[c]] = [k \in 1 .. pos'[c] |-> <<v, source'[c][k]>>]
        BY <4>6, <4>7, <4>9 DEF Begun
      <4> QED BY <4>8, <4>9, <4>10 DEF Growing
    <3>5. Packed(c)'
      BY <3>1, <3>4 DEF ArchiveInv, Packed
    <3> QED BY <3>1, <3>2, <3>5 DEF Packed, Serving
  <2>8. CASE SrvTarDone(c)
    <3>1. /\ spc[c] = "write" /\ pos[c] = Len(source[c])
          /\ spc' = [spc EXCEPT ![c] = "open"]
          /\ UNCHANGED <<quiet, disk, tarFile, dirVars>>
      BY <2>8 DEF SrvTarDone, SrvGoto, diskVars
    <3>2. \A y \in Clients \ {c} : ~(quiet[y] /\ spc[y] \in Serving)
      BY <3>1, WritesAlone
    <3>3. spc'[c] = "open" /\ \A y \in Clients \ {c} : spc'[y] = spc[y]
      BY <3>1 DEF TypeOK
    <3>4. ASSUME quiet[c] PROVE Whole'
      <4>1. Growing(c) /\ source[c] \in Orders(Names)
        BY <3>1, <3>4 DEF ArchiveInv
      <4>2. PICK v \in 1 .. MaxVersion : disk[tarFile] = Archive(v, source[c])
        BY <3>1, <4>1 DEF Growing, Archive
      <4>5. Complete(disk[tarFile])
        BY <4>1, <4>2 DEF Complete
      <4>3. tarFile \in Files
        BY <3>1, <4>1 DEF Growing, FileInv
      <4>4. \A d \in Clients : spc'[d] # "write"
        BY <3>1, <3>3 DEF MutexInv
      <4> QED BY <3>1, <4>3, <4>4, <4>5, IdentitiesAssumption DEF Whole, Complete
    <3>5. Packed(c)'
      BY <3>1, <3>3, <3>4 DEF Packed
    <3> QED BY <3>1, <3>2, <3>3, <3>5 DEF Packed, Serving
  <2>9. CASE Dies
    BY <2>9 DEF Dies, Packed
  <2> QED BY <1>2, <2>1, <2>2, <2>3, <2>4, <2>5, <2>6, <2>7, <2>8, <2>9, HandlerCases
          DEF Tar
<1>3. CASE Operator
  <2>1. UNCHANGED <<disk, spc, file, source, pos>>
    BY <1>3, OperatorAside
  <2>2. CASE Disturb
    <3>1. ~(quiet'[x] /\ spc'[x] \in Serving)
      BY <2>1, <2>2 DEF Disturb
    <3> QED BY <3>1 DEF Packed, Serving
  <2>3. CASE UNCHANGED <<quiet, tarFile, dir>> /\ (hasDir => hasDir')
    <3>1. \A v \in 1 .. MaxVersion : Uniform(v) => Uniform(v)'
      BY <2>3 DEF Uniform
    <3>2. Growing(x) => Growing(x)'
      BY <2>1, <2>3, <3>1 DEF Growing
    <3>3. Whole => Whole'
      BY <2>1, <2>3 DEF Whole, Complete
    <3>4. Packed(x)
      BY DEF ArchiveInv, Packed
    <3> QED BY <2>1, <2>3, <3>1, <3>2, <3>3, <3>4 DEF Packed
  <2>4. Disturb \/ (UNCHANGED <<quiet, tarFile, dir>> /\ (hasDir => hasDir'))
    BY <1>3 DEF Operator, OperatorRemovesFile, OperatorRemovesDir, OperatorGivesUp,
       OperatorRemovesTar, OperatorPresents, OperatorCopies, OperatorCopied,
       OperatorStops
  <2> QED BY <2>2, <2>3, <2>4
<1> QED BY <1>1, <1>2, <1>3, ClientLeavesServer, IdleLeavesServer DEF Next

-----------------------------------------------------------------------------
(* The checksums.                                                          *)

(* Taking frames from a channel adds no INSTALL_END to it, and neither     *)
(* does sending another frame.                                             *)
LEMMA EndsWholeKept ==
  ASSUME NEW s \in Seq(Frame), EndsWhole(s)
  PROVE  /\ s # <<>> => EndsWhole(Tail(s))
         /\ \A k \in 0 .. Len(s) : EndsWhole(SubSeq(s, 1, k))
         /\ \A m \in Frame :
              (m.type = "INSTALL_END" => WholeSum(m.sum)) => EndsWhole(Append(s, m))
<1> DEFINE F == Frame
<1> HIDE DEF F
<1>1. s \in Seq(F)
  BY DEF F
<1>2. s # <<>> => EndsWhole(Tail(s))
  <2> SUFFICES ASSUME s # <<>>, NEW i \in 1 .. Len(Tail(s))
               PROVE  Tail(s)[i].type = "INSTALL_END" => WholeSum(Tail(s)[i].sum)
    BY DEF EndsWhole
  <2>1. i + 1 \in 1 .. Len(s) /\ Tail(s)[i] = s[i + 1]
    BY <1>1
  <2> QED BY <2>1 DEF EndsWhole
<1>3. ASSUME NEW k \in 0 .. Len(s) PROVE EndsWhole(SubSeq(s, 1, k))
  <2> SUFFICES ASSUME NEW i \in 1 .. Len(SubSeq(s, 1, k))
               PROVE  SubSeq(s, 1, k)[i].type = "INSTALL_END"
                        => WholeSum(SubSeq(s, 1, k)[i].sum)
    BY DEF EndsWhole
  <2>1. i \in 1 .. Len(s) /\ SubSeq(s, 1, k)[i] = s[i]
    BY <1>1
  <2> QED BY <2>1 DEF EndsWhole
<1>4. ASSUME NEW m \in Frame, m.type = "INSTALL_END" => WholeSum(m.sum)
      PROVE  EndsWhole(Append(s, m))
  <2> SUFFICES ASSUME NEW i \in 1 .. Len(Append(s, m))
               PROVE  Append(s, m)[i].type = "INSTALL_END"
                        => WholeSum(Append(s, m)[i].sum)
    BY DEF EndsWhole
  <2>1. CASE i \in 1 .. Len(s)
    <3>1. Append(s, m)[i] = s[i]
      BY <1>1, <2>1
    <3> QED BY <2>1, <3>1 DEF EndsWhole
  <2>2. CASE i = Len(s) + 1
    BY <1>1, <1>4, <2>2
  <2> QED BY <1>1, <2>1, <2>2
<1> QED BY <1>2, <1>3, <1>4

(* The history variable only falls. *)
LEMMA QuietFalls ==
  ASSUME TypeOK, [Next]_vars
  PROVE  \A x \in Clients : quiet'[x] => quiet[x]
<1>1. ASSUME UNCHANGED quiet PROVE \A x \in Clients : quiet'[x] => quiet[x]
  BY <1>1
<1>2. ASSUME NEW c \in Clients, Handler(c)
      PROVE  \A x \in Clients : quiet'[x] => quiet[x]
  <2>1. CASE Talk(c) \/ Stream(c) \/ Dies
    BY <2>1, TalkEffect, StreamEffect DEF Dies
  <2>2. CASE SrvBuildTar(c)
    BY <2>2, ZenonT(60) DEF SrvBuildTar, TypeOK
  <2>3. CASE SrvTarCreate(c) \/ SrvTarWrite(c) \/ SrvTarDone(c)
    BY <2>3 DEF SrvTarCreate, SrvTarWrite, SrvTarDone
  <2>4. CASE SrvLists(c) \/ SrvTarFails(c)
    <3>1. quiet' = quiet \/ quiet' = [quiet EXCEPT ![c] = FALSE]
      BY <2>4 DEF SrvLists, SrvTarFails, SrvTarLacks
    <3> QED BY <3>1 DEF TypeOK
  <2> QED BY <1>2, <2>1, <2>2, <2>3, <2>4, HandlerCases DEF Tar
<1>3. ASSUME Operator PROVE \A x \in Clients : quiet'[x] => quiet[x]
  <2>1. Disturb \/ UNCHANGED quiet
    BY <1>3 DEF Operator, OperatorRemovesFile, OperatorRemovesDir, OperatorGivesUp,
       OperatorRemovesTar, OperatorPresents, OperatorCopies, OperatorCopied,
       OperatorStops
  <2> QED BY <2>1 DEF Disturb
<1> QED BY <1>1, <1>2, <1>3, ClientLeavesServer, IdleLeavesServer
        DEF Next, serverSide

(* What a step may do to the frames under way to one client. *)
ChannelStep(c) ==
  \/ s2c' = s2c
  \/ s2c[c] # <<>> /\ s2c' = [s2c EXCEPT ![c] = Tail(@)]
  \/ \E k \in 0 .. Len(s2c[c]) : s2c' = [s2c EXCEPT ![c] = SubSeq(@, 1, k)]
  \/ \E m \in Frame : /\ m.type = "INSTALL_END" /\ quiet[c] => WholeSum(m.sum)
                      /\ s2c' = [s2c EXCEPT ![c] = Append(@, m)]

(* A frame other than INSTALL_END is a legal step of a channel. *)
LEMMA SendStep ==
  ASSUME NEW c \in Clients, NEW t \in MsgType \ {"INSTALL_END"},
         SrvSends(c, Msg(t))
  PROVE  ChannelStep(c)
<1>1. Msg(t) \in Frame /\ Msg(t).type # "INSTALL_END"
  BY MsgIsFrame DEF Msg
<1> QED BY <1>1 DEF SrvSends, ChannelStep

(* A step of a client takes at most one frame from what it is sent. *)
LEMMA ClientChannel ==
  ASSUME TypeOK, NEW c \in Clients, Client(c) \/ LinkBreaks(c) \/ Quit(c)
  PROVE  ChannelStep(c)
<1>1. CASE LinkBreaks(c)
  BY <1>1 DEF LinkBreaks, ChannelStep
<1>2. CASE Quit(c)
  BY <1>2 DEF Quit, ChannelStep
<1>3. CASE Client(c)
  <2>1. s2c' = s2c \/ (s2c[c] # <<>> /\ CliPops(c))
    BY <1>3 DEF Client, CliConnect, CliHello, CliAuthRequest, CliAck,
       CliHandshakeFails, CliReply, CliData, CliSize, CliError, CliEnd,
       CliLost, CliVerify, CliSigpipe, CliGets, netVars
  <2> QED BY <2>1 DEF CliPops, ChannelStep
<1> QED BY <1>1, <1>2, <1>3

(* A step of a handler sends at most one frame, and as INSTALL_END only the *)
(* checksum of a whole archive while it is undisturbed. *)
LEMMA HandlerChannel ==
  ASSUME TypeOK, FileInv, ArchiveInv, NEW c \in Clients, Handler(c)
  PROVE  ChannelStep(c)
<1>1. ASSUME s2c' = s2c PROVE ChannelStep(c)
  BY <1>1 DEF ChannelStep
<1>2. CASE Talk(c)
  <2>1. \/ s2c' = s2c
        \/ \E t \in MsgType \ {"INSTALL_END"} : SrvSends(c, Msg(t))
    BY <1>2 DEF Talk, SrvAccept, SrvKey, SrvAuth, SrvHangup, SrvQuery,
       SrvInstallRequest, MsgType
  <2> QED BY <1>1, <2>1, SendStep
<1>3. CASE SrvOpen(c) \/ SrvSize(c)
  <2>1. \/ s2c' = s2c
        \/ \E t \in MsgType \ {"INSTALL_END"} : SrvSends(c, Msg(t))
    BY <1>3 DEF SrvOpen, SrvSize, MsgType
  <2> QED BY <1>1, <2>1, SendStep
<1>4. CASE SrvStream(c)
  <2>1. CASE pos[c] < Len(disk[file[c]])
    <3> DEFINE m == Data(disk[file[c]][pos[c] + 1])
    <3>1. file[c] \in Files
      BY <1>4 DEF SrvStream, FileInv
    <3>2. disk[file[c]] \in Content /\ pos[c] + 1 \in 1 .. Len(disk[file[c]])
      BY <2>1, <3>1 DEF TypeOK, Content
    <3>3. m \in Frame /\ m.type # "INSTALL_END"
      BY <3>2, ContentGrows, DataIsFrame DEF Data
    <3>4. SrvSends(c, m)
      BY <1>4, <2>1 DEF SrvStream
    <3> QED BY <3>3, <3>4 DEF SrvSends, ChannelStep
  <2>2. CASE ~(pos[c] < Len(disk[file[c]]))
    BY <1>1, <1>4, <2>2 DEF SrvStream
  <2> QED BY <2>1, <2>2
<1>5. CASE SrvEnd(c)
  <2>1. End(TarSum) \in Frame /\ End(TarSum).sum = TarSum
    BY TarSumIsChecksum, EndIsFrame DEF End
  <2>2. quiet[c] => WholeSum(TarSum)
    <3>1. quiet[c] => Whole
      BY <1>5 DEF SrvEnd, ArchiveInv
    <3> QED BY <3>1 DEF Whole, TarSum, WholeSum, Sum
  <2> QED BY <1>5, <2>1, <2>2 DEF SrvEnd, SrvSends, ChannelStep
<1>6. CASE Tar(c) \/ Dies
  BY <1>1, <1>6, TarEffect DEF Dies,
     netVars
<1> QED BY <1>2, <1>3, <1>4, <1>5, <1>6, HandlerCases DEF Stream

(* A client reads its expectation off the frame it takes. *)
LEMMA ExpectStep ==
  ASSUME TypeOK, [Next]_vars
  PROVE  \A x \in Clients :
           \/ expect'[x] = expect[x]
           \/ CliGets(x, "INSTALL_END") /\ expect'[x] = Head(s2c[x]).sum
<1>1. ASSUME UNCHANGED expect PROVE \A x \in Clients : expect'[x] = expect[x]
  BY <1>1
<1>2. ASSUME NEW c \in Clients, Client(c), ~CliEnd(c) PROVE expect' = expect
  BY <1>2 DEF Client, CliConnect, CliHello, CliAuthRequest, CliAck,
     CliHandshakeFails, CliReply, CliData, CliSize, CliError,
     CliLost, CliVerify, CliSigpipe
<1>3. ASSUME NEW c \in Clients, CliEnd(c)
      PROVE  \A x \in Clients :
               \/ expect'[x] = expect[x]
               \/ CliGets(x, "INSTALL_END") /\ expect'[x] = Head(s2c[x]).sum
  BY <1>3 DEF CliEnd, TypeOK
<1>4. ASSUME NEW c \in Clients, Handler(c) PROVE expect' = expect
  <2>1. CASE Talk(c)
    BY <2>1 DEF Talk, SrvAccept, SrvKey, SrvAuth, SrvHangup, SrvQuery,
       SrvInstallRequest, cliVars
  <2>2. CASE Stream(c)
    BY <2>2 DEF Stream, SrvOpen, SrvSize, SrvStream, SrvEnd, cliVars
  <2>3. CASE Tar(c) \/ Dies
    BY <2>3, TarEffect DEF Dies, cliVars
  <2> QED BY <1>4, <2>1, <2>2, <2>3, HandlerCases
<1>5. ASSUME Operator \/ Finished \/ UNCHANGED vars PROVE expect' = expect
  BY <1>5, OperatorAside DEF Finished, vars, cliVars
<1>6. ASSUME NEW c \in Clients, LinkBreaks(c) \/ Quit(c) PROVE expect' = expect
  BY <1>6 DEF LinkBreaks, Quit, cliVars
<1> QED BY <1>1, <1>2, <1>3, <1>4, <1>5, <1>6 DEF Next

(* Undisturbed handlers announce checksums of whole archives, and clients *)
(* expect only what was announced. *)
LEMMA EndStep ==
  ASSUME TypeOK, FileInv, ArchiveInv, EndInv, [Next]_vars PROVE EndInv'
<1> SUFFICES ASSUME NEW x \in Clients, quiet'[x]
             PROVE  /\ EndsWhole(s2c'[x])
                    /\ expect'[x] # NoSum => WholeSum(expect'[x])
  BY DEF EndInv, EndsWhole, WholeSum
<1>1. quiet[x]
  BY QuietFalls
<1>2. EndsWhole(s2c[x]) /\ (expect[x] # NoSum => WholeSum(expect[x]))
  BY <1>1 DEF EndInv
<1>3. s2c[x] \in Seq(Frame)
  BY DEF TypeOK
<1>4. expect'[x] # NoSum => WholeSum(expect'[x])
  <2>1. CASE expect'[x] = expect[x]
    BY <1>2, <2>1
  <2>2. CASE CliGets(x, "INSTALL_END") /\ expect'[x] = Head(s2c[x]).sum
    <3>1. 1 \in 1 .. Len(s2c[x]) /\ Head(s2c[x]) = s2c[x][1]
      BY <1>3, <2>2 DEF CliGets
    <3> QED BY <1>2, <2>2, <3>1 DEF EndsWhole, CliGets
  <2> QED BY <2>1, <2>2, ExpectStep
<1>5. (\E c \in Clients : ChannelStep(c)) \/ s2c' = s2c
  <2>1. ASSUME NEW c \in Clients, Client(c) \/ LinkBreaks(c) \/ Quit(c)
        PROVE  ChannelStep(c)
    BY <2>1, ClientChannel
  <2>2. ASSUME NEW c \in Clients, Handler(c) PROVE ChannelStep(c)
    BY <2>2, HandlerChannel
  <2>3. ASSUME Operator \/ Finished \/ UNCHANGED vars PROVE s2c' = s2c
    BY <2>3, OperatorAside DEF Finished, vars, netVars
  <2> QED BY <2>1, <2>2, <2>3 DEF Next
<1>6. EndsWhole(s2c'[x])
  <2>1. CASE s2c' = s2c
    BY <1>2, <2>1
  <2>2. ASSUME NEW c \in Clients, ChannelStep(c), c # x PROVE s2c'[x] = s2c[x]
    BY <2>2 DEF ChannelStep, TypeOK
  <2>3. CASE ChannelStep(x)
    <3>1. CASE s2c[x] # <<>> /\ s2c' = [s2c EXCEPT ![x] = Tail(@)]
      <4>1. s2c'[x] = Tail(s2c[x])
        BY <3>1 DEF TypeOK
      <4> QED BY <1>2, <1>3, <3>1, <4>1, EndsWholeKept
    <3>2. ASSUME NEW k \in 0 .. Len(s2c[x]),
                 s2c' = [s2c EXCEPT ![x] = SubSeq(@, 1, k)]
          PROVE  EndsWhole(s2c'[x])
      <4>1. s2c'[x] = SubSeq(s2c[x], 1, k)
        BY <3>2 DEF TypeOK
      <4> QED BY <1>2, <1>3, <4>1, EndsWholeKept
    <3>3. ASSUME NEW m \in Frame,
                 m.type = "INSTALL_END" /\ quiet[x] => WholeSum(m.sum),
                 s2c' = [s2c EXCEPT ![x] = Append(@, m)]
          PROVE  EndsWhole(s2c'[x])
      <4>1. s2c'[x] = Append(s2c[x], m)
        BY <3>3 DEF TypeOK
      <4> QED BY <1>1, <1>2, <1>3, <3>3, <4>1, EndsWholeKept
    <3> QED BY <2>1, <2>3, <3>1, <3>2, <3>3 DEF ChannelStep
  <2> QED BY <1>2, <1>5, <2>1, <2>2, <2>3
<1> QED BY <1>4, <1>6

-----------------------------------------------------------------------------
(* The verdicts.                                                           *)

(* A verdict is final, and what is verified has the checksum that was told. *)
LEMMA VerdictStep == ASSUME TypeOK, VerdictInv, [Next]_vars PROVE VerdictInv'
<1>1. ASSUME UNCHANGED <<cpc, result, op, expect, out>> PROVE VerdictInv'
  BY <1>1 DEF VerdictInv, Verified
<1>2. ASSUME NEW c \in Clients, Client(c) \/ Quit(c) PROVE VerdictInv'
  <2>1. /\ op' = op
        /\ \A x \in Clients : x # c => /\ cpc'[x] = cpc[x]
                                       /\ result'[x] = result[x]
                                       /\ expect'[x] = expect[x]
                                       /\ out'[x] = out[x]
    BY <1>2 DEF Client, CliConnect, CliHello, CliAuthRequest, CliAck,
       CliHandshakeFails, CliReply, CliData, CliSize, CliError, CliEnd,
       CliLost, CliVerify, CliSigpipe, Quit, Requests, CliEnds, CliGoto, cliVars,
       confVars, TypeOK
  <2>2. result[c] = "none"
    BY <1>2 DEF Client, CliConnect, CliHello, CliAuthRequest, CliAck,
       CliHandshakeFails, CliReply, CliData, CliSize, CliError, CliEnd,
       CliLost, CliVerify, CliSigpipe, Quit, VerdictInv, TypeOK
  <2>3. /\ result'[c] # "none" => cpc'[c] = "done"
        /\ Verified(c)' => Sum(out'[c]) = expect'[c]
    <3>1. ASSUME NEW r \in {"failed", "killed"}, CliEnds(c, r)
          PROVE  cpc'[c] = "done" /\ ~Verified(c)'
      BY <3>1 DEF CliEnds, CliGoto, Verified, TypeOK
    <3>2. ASSUME result' = result
          PROVE  result'[c] = "none" /\ ~Verified(c)'
      BY <2>2, <3>2 DEF Verified
    <3>3. CASE CliVerify(c)
      <4>1. CASE expect[c] # NoSum /\ Sum(out[c]) # expect[c]
        BY <3>1, <3>3, <4>1 DEF CliVerify
      <4>2. CASE ~(expect[c] # NoSum /\ Sum(out[c]) # expect[c])
        <5>1. CliEnds(c, "ok") /\ out' = out /\ expect' = expect
          BY <3>3, <4>2 DEF CliVerify
        <5> QED BY <4>2, <5>1 DEF CliEnds, CliGoto, Verified, TypeOK
      <4> QED BY <4>1, <4>2
    <3>4. CASE CliReply(c)
      <4>1. op'[c] = "query" /\ \E r \in {"ok", "failed"} : CliEnds(c, r)
        BY <2>1, <3>4 DEF CliReply
      <4> QED BY <4>1 DEF Verified, CliEnds, CliGoto, TypeOK
    <3>5. CASE CliConnect(c)
      BY <3>1, <3>2, <3>5 DEF CliConnect
    <3>6. CASE CliSize(c)
      BY <3>1, <3>2, <3>6 DEF CliSize
    <3>7. CASE CliHandshakeFails(c) \/ CliError(c) \/ CliSigpipe(c) \/ Quit(c)
      BY <3>1, <3>7 DEF CliHandshakeFails, CliError, CliSigpipe, Quit
    <3>8. CASE CliAuthRequest(c) \/ CliData(c) \/ CliEnd(c) \/ CliLost(c)
      BY <3>2, <3>8 DEF CliAuthRequest, CliData, CliEnd, CliLost
    <3>9. CASE CliHello(c) \/ CliAck(c)
      BY <3>1, <3>2, <3>9 DEF CliHello, CliAck, Requests
    <3> QED BY <1>2, <3>3, <3>4, <3>5, <3>6, <3>7, <3>8, <3>9 DEF Client
  <2> QED BY <2>1, <2>3 DEF VerdictInv, Verified
<1>3. ASSUME NEW c \in Clients, Handler(c) PROVE VerdictInv'
  <2>1. CASE Talk(c)
    BY <1>1, <2>1 DEF Talk, SrvAccept, SrvKey, SrvAuth, SrvHangup, SrvQuery,
       SrvInstallRequest, cliVars, confVars
  <2>2. CASE Stream(c)
    BY <1>1, <2>2 DEF Stream, SrvOpen, SrvSize, SrvStream, SrvEnd, cliVars, confVars
  <2>3. CASE Tar(c) \/ Dies
    BY <1>1, <2>3, TarEffect DEF Dies,
       cliVars, confVars
  <2> QED BY <1>3, <2>1, <2>2, <2>3, HandlerCases
<1>4. ASSUME Operator \/ Finished \/ UNCHANGED vars PROVE VerdictInv'
  BY <1>1, <1>4, OperatorAside DEF Finished, vars, cliVars, confVars
<1>5. ASSUME NEW c \in Clients, LinkBreaks(c) PROVE VerdictInv'
  BY <1>1, <1>5 DEF LinkBreaks, cliVars, confVars
<1> QED BY <1>2, <1>3, <1>4, <1>5 DEF Next

-----------------------------------------------------------------------------
(* Passwords.                                                              *)

(* A queue in which no password waits gains none by losing frames or by    *)
(* the frames of a handshake without one. *)
LEMMA OffersKept ==
  ASSUME NEW s \in Seq(Frame)
  PROVE  /\ s # <<>> /\ OffersPassword(Tail(s)) => OffersPassword(s)
         /\ \A k \in 0 .. Len(s) : OffersPassword(SubSeq(s, 1, k)) => OffersPassword(s)
         /\ \A ms \in Seq(Frame) :
              OffersPassword(s \o ms) => OffersPassword(s) \/ OffersPassword(ms)
         /\ s # <<>> /\ Head(s).type = "PASSWORD" => OffersPassword(s)
<1> DEFINE F == Frame
<1> HIDE DEF F
<1>1. s \in Seq(F)
  BY DEF F
<1>2. ASSUME s # <<>>, NEW i \in 1 .. Len(Tail(s)), Tail(s)[i].type = "PASSWORD"
      PROVE  OffersPassword(s)
  <2>1. i + 1 \in 1 .. Len(s) /\ Tail(s)[i] = s[i + 1]
    BY <1>1, <1>2
  <2> QED BY <1>2, <2>1 DEF OffersPassword
<1>3. ASSUME NEW k \in 0 .. Len(s), NEW i \in 1 .. Len(SubSeq(s, 1, k)),
             SubSeq(s, 1, k)[i].type = "PASSWORD"
      PROVE  OffersPassword(s)
  <2>1. i \in 1 .. Len(s) /\ SubSeq(s, 1, k)[i] = s[i]
    BY <1>1
  <2> QED BY <1>3, <2>1 DEF OffersPassword
<1>4. ASSUME NEW ms \in Seq(F), NEW i \in 1 .. Len(s \o ms),
             (s \o ms)[i].type = "PASSWORD"
      PROVE  OffersPassword(s) \/ OffersPassword(ms)
  <2>1. CASE i \in 1 .. Len(s)
    <3>1. (s \o ms)[i] = s[i]
      BY <1>1, <2>1
    <3> QED BY <1>4, <2>1, <3>1 DEF OffersPassword
  <2>2. CASE i \notin 1 .. Len(s)
    <3>1. i - Len(s) \in 1 .. Len(ms) /\ (s \o ms)[i] = ms[i - Len(s)]
      BY <1>1, <1>4, <2>2
    <3> QED BY <1>4, <3>1 DEF OffersPassword
  <2> QED BY <2>1, <2>2
<1>5. ASSUME s # <<>>, Head(s).type = "PASSWORD" PROVE OffersPassword(s)
  <2>1. 1 \in 1 .. Len(s) /\ Head(s) = s[1]
    BY <1>1, <1>5
  <2> QED BY <1>5, <2>1 DEF OffersPassword
<1> QED BY <1>2, <1>3, <1>4, <1>5 DEF OffersPassword, F

(* Keys and requests are no passwords. *)
LEMMA NoOffer ==
  ASSUME NEW c \in Clients
  PROVE  /\ ~OffersPassword(<<>>)
         /\ ~OffersPassword(<<Msg("KEY")>>)
         /\ ~OffersPassword(<<Request(c)>>)
         /\ ~OffersPassword(<<Msg("KEY"), Request(c)>>)
BY DEF OffersPassword, Msg, Request

(* A step sends a password only for a client that believes in one and waits *)
(* only for such a client; nobody's belief changes. *)
LEMMA ClientAuth ==
  ASSUME TypeOK, AuthInv, NEW c \in Clients, Client(c) \/ LinkBreaks(c) \/ Quit(c)
  PROVE  /\ UNCHANGED <<spc, needsPw, believes, pw>>
         /\ \A x \in Clients \ {c} : c2s'[x] = c2s[x] /\ cpc'[x] = cpc[x]
         /\ cpc'[c] \in {"authreq", "ack"} \/ OffersPassword(c2s'[c]) => believes[c]
<1>1. UNCHANGED <<spc, needsPw, believes, pw>>
  BY DEF Client, CliConnect, CliHello, CliAuthRequest, CliAck,
     CliHandshakeFails, CliReply, CliData, CliSize, CliError, CliEnd,
     CliLost, CliVerify, CliSigpipe, LinkBreaks, Quit, srvVars, confVars
<1>2. \A x \in Clients \ {c} : c2s'[x] = c2s[x] /\ cpc'[x] = cpc[x]
  BY DEF Client, CliConnect, CliHello, CliAuthRequest, CliAck,
     CliHandshakeFails, CliReply, CliData, CliSize, CliError, CliEnd,
     CliLost, CliVerify, CliSigpipe, LinkBreaks, Quit, Requests, CliEnds, CliGoto,
     CliSends, cliVars, netVars, TypeOK
<1>3. c2s[c] \in Seq(Frame)
  BY DEF TypeOK
<1>4. cpc[c] \in {"authreq", "ack"} \/ OffersPassword(c2s[c]) => believes[c]
  BY DEF AuthInv
<1>5. ASSUME NEW ms \in Seq(Frame), CliSends(c, ms), OffersPassword(c2s'[c])
      PROVE  OffersPassword(c2s[c]) \/ OffersPassword(ms)
  <2>1. c2s'[c] = c2s[c] \/ c2s'[c] = c2s[c] \o ms
    BY <1>5 DEF CliSends, TypeOK
  <2> QED BY <1>3, <1>5, <2>1, OffersKept
<1>6. cpc'[c] \in {"authreq", "ack"} \/ OffersPassword(c2s'[c]) => believes[c]
  <2>1. CASE CliHello(c)
    <3>1. <<Msg("KEY")>> \in Seq(Frame) /\ <<Msg("KEY"), Request(c)>> \in Seq(Frame)
      BY MsgIsFrame DEF Request, MsgType
    <3>2. CASE believes[c]
      BY <3>2
    <3>3. CASE ~believes[c]
      <4>1. /\ cpc'[c] \in {"recv", "done"}
            /\ CliSends(c, <<Msg("KEY"), Request(c)>>)
        BY <2>1, <3>3 DEF CliHello, Requests, CliEnds, CliGoto, TypeOK
      <4> QED BY <1>4, <1>5, <3>1, <3>3, <4>1, NoOffer
    <3> QED BY <3>2, <3>3
  <2>2. CASE CliAuthRequest(c)
    BY <1>4, <2>2 DEF CliAuthRequest
  <2>3. CASE CliAck(c)
    BY <1>4, <2>3 DEF CliAck
  <2>4. CASE LinkBreaks(c)
    <3>1. PICK k \in 0 .. Len(c2s[c]) : c2s' = [c2s EXCEPT ![c] = SubSeq(@, 1, k)]
      BY <2>4 DEF LinkBreaks
    <3>2. c2s'[c] = SubSeq(c2s[c], 1, k) /\ cpc' = cpc
      BY <2>4, <3>1 DEF LinkBreaks, cliVars, TypeOK
    <3> QED BY <1>3, <1>4, <3>2, OffersKept
  <2>5. CASE ~(\/ CliHello(c) \/ CliAuthRequest(c) \/ CliAck(c) \/ LinkBreaks(c))
    <3>1. c2s' = c2s
      BY <2>5 DEF Client, CliConnect, CliHandshakeFails, CliReply, CliData,
         CliSize, CliError, CliEnd, CliLost, CliVerify, CliSigpipe, Quit,
         netVars
    <3>2. cpc'[c] = cpc[c] \/ cpc'[c] \notin {"authreq", "ack"}
      BY <2>5 DEF Client, CliConnect, CliHandshakeFails, CliReply, CliData,
         CliSize, CliError, CliEnd, CliLost, CliVerify, CliSigpipe, Quit,
         CliEnds, CliGoto, TypeOK
    <3> QED BY <1>4, <3>1, <3>2
  <2> QED BY <2>1, <2>2, <2>3, <2>4, <2>5
<1> QED BY <1>1, <1>2, <1>6

(* A handler takes at most one frame from its queue, and on a server with  *)
(* a password leaves the handshake only with the right one. *)
LEMMA HandlerAuth ==
  ASSUME TypeOK, AuthInv, NEW c \in Clients, Handler(c)
  PROVE  /\ UNCHANGED <<cpc, needsPw, believes, pw>>
         /\ c2s' = c2s \/ (c2s[c] # <<>> /\ SrvPops(c))
         /\ \A x \in Clients :
              needsPw /\ spc'[x] \in {"loop", "find"} \cup Serving
                => believes[x] /\ pw[x] = "good"
<1> DEFINE Past == {"loop", "find"} \cup Serving
<1>1. ASSUME NEW x \in Clients, needsPw, spc[x] \in Past
      PROVE  believes[x] /\ pw[x] = "good"
  BY <1>1 DEF AuthInv, ServesOnlyAuthenticated
<1>2. CASE Talk(c)
  <2>1. UNCHANGED <<cpc, needsPw, believes, pw>>
    BY <1>2 DEF Talk, SrvAccept, SrvKey, SrvAuth, SrvHangup, SrvQuery,
       SrvInstallRequest, cliVars, confVars
  <2>2. c2s' = c2s \/ (c2s[c] # <<>> /\ SrvPops(c))
    BY <1>2 DEF Talk, SrvAccept, SrvKey, SrvAuth, SrvHangup, SrvQuery,
       SrvInstallRequest, SrvGets
  <2>3. needsPw /\ spc'[c] \in Past => spc[c] \in Past \/ (SrvAuth(c) /\ RightPassword(c))
    BY <1>2 DEF Talk, SrvAccept, SrvKey, SrvAuth, SrvHangup, SrvQuery,
       SrvInstallRequest, SrvGoto, SrvCloses, Serving, TypeOK
  <2>4. \A x \in Clients \ {c} : spc'[x] = spc[x]
    <3>1. CASE spc' = spc
      BY <3>1
    <3>2. CASE \E l \in SrvPc \ Serving :
                 spc' = [spc EXCEPT ![c] = l]
      BY <3>2 DEF TypeOK
    <3> QED BY <1>2, <3>1, <3>2, TalkEffect
  <2>5. SrvAuth(c) /\ RightPassword(c) => believes[c] /\ pw[c] = "good"
    <3>1. c2s[c] \in Seq(Frame)
      BY DEF TypeOK
    <3> QED BY <3>1, OffersKept DEF RightPassword, SrvGets, AuthInv
  <2> QED BY <1>1, <2>1, <2>2, <2>3, <2>4, <2>5
<1>3. CASE Stream(c)
  <2>1. UNCHANGED <<cpc, needsPw, believes, pw, c2s>>
    BY <1>3 DEF Stream, SrvOpen, SrvSize, SrvStream, SrvEnd, cliVars, confVars
  <2>2. spc[c] \in Past
    BY <1>3, StreamEffect DEF Serving
  <2>3. \A x \in Clients \ {c} : spc'[x] = spc[x]
    <3>1. CASE spc' = spc
      BY <3>1
    <3>2. CASE \E l \in {"loop", "size", "stream", "end"} :
                 spc' = [spc EXCEPT ![c] = l]
      BY <3>2 DEF TypeOK
    <3> QED BY <1>3, <3>1, <3>2, StreamEffect
  <2> QED BY <1>1, <2>1, <2>2, <2>3
<1>4. CASE Tar(c)
  <2>1. UNCHANGED <<cpc, needsPw, believes, pw, c2s>>
    BY <1>4, TarEffect DEF cliVars,
       confVars, netVars
  <2>2. spc[c] \in Past
    BY <1>4, TarEffect DEF Serving
  <2>3. \A x \in Clients \ {c} : spc'[x] = spc[x]
    <3>1. CASE spc' = spc
      BY <3>1
    <3>2. CASE \E l \in {"list", "create", "write", "open"} :
                 spc' = [spc EXCEPT ![c] = l]
      BY <3>2 DEF TypeOK
    <3> QED BY <1>4, <3>1, <3>2, TarEffect
  <2> QED BY <1>1, <2>1, <2>2, <2>3
<1>5. CASE Dies
  BY <1>5 DEF Dies, Serving, cliVars, confVars
<1> QED BY <1>2, <1>3, <1>4, <1>5, HandlerCases

(* Only clients that believe in a password send one, and without the right *)
(* one a server that needs it answers no request. *)
LEMMA AuthStep == ASSUME TypeOK, AuthInv, [Next]_vars PROVE AuthInv'
<1>1. ASSUME NEW c \in Clients, Client(c) \/ LinkBreaks(c) \/ Quit(c) PROVE AuthInv'
  BY <1>1, ClientAuth DEF AuthInv, ServesOnlyAuthenticated
<1>2. ASSUME NEW c \in Clients, Handler(c) PROVE AuthInv'
  <2>1. ASSUME NEW x \in Clients, OffersPassword(c2s'[x]) PROVE OffersPassword(c2s[x])
    <3>1. c2s[x] \in Seq(Frame)
      BY DEF TypeOK
    <3>2. c2s'[x] = c2s[x] \/ (c2s[x] # <<>> /\ c2s'[x] = Tail(c2s[x]))
      <4>1. CASE c2s' = c2s
        BY <4>1
      <4>2. CASE c2s[c] # <<>> /\ SrvPops(c) /\ x = c
        BY <4>2 DEF SrvPops, TypeOK
      <4>3. CASE c2s[c] # <<>> /\ SrvPops(c) /\ x # c
        BY <4>3 DEF SrvPops, TypeOK
      <4> QED BY <1>2, <4>1, <4>2, <4>3, HandlerAuth
    <3> QED BY <2>1, <3>1, <3>2, OffersKept
  <2> QED BY <1>2, <2>1, HandlerAuth DEF AuthInv, ServesOnlyAuthenticated
<1>3. ASSUME Operator \/ Finished \/ UNCHANGED vars PROVE AuthInv'
  BY <1>3, OperatorAside DEF Finished, vars, netVars, cliVars, srvVars, confVars,
     AuthInv, ServesOnlyAuthenticated
<1> QED BY <1>1, <1>2, <1>3 DEF Next

-----------------------------------------------------------------------------
(* Sessions.                                                               *)

(* What one connection's session speaks of. *)
Side(c) ==
  <<cpc[c], spc[c], c2s[c], s2c[c], cliOpen[c], srvOpen[c], result[c],
    op[c], believes[c], pw[c], needsPw>>

(* Configuration does not change. *)
LEMMA ConfKept == ASSUME [Next]_vars PROVE UNCHANGED confVars
<1>1. ASSUME NEW c \in Clients, Client(c) \/ LinkBreaks(c) \/ Quit(c)
      PROVE  UNCHANGED confVars
  BY <1>1 DEF Client, CliConnect, CliHello, CliAuthRequest, CliAck,
     CliHandshakeFails, CliReply, CliData, CliSize, CliError, CliEnd,
     CliLost, CliVerify, CliSigpipe, LinkBreaks, Quit
<1>2. ASSUME NEW c \in Clients, Handler(c) PROVE UNCHANGED confVars
  <2>1. CASE Talk(c) \/ Stream(c)
    BY <2>1 DEF Talk, SrvAccept, SrvKey, SrvAuth, SrvHangup, SrvQuery,
       SrvInstallRequest, Stream, SrvOpen, SrvSize, SrvStream, SrvEnd
  <2>2. CASE Tar(c) \/ Dies
    BY <2>2, TarEffect DEF Dies
  <2> QED BY <1>2, <2>1, <2>2, HandlerCases
<1> QED BY <1>1, <1>2, OperatorAside DEF Next, Finished, vars

(* A client, a link or a user disturbs only the connection it belongs to. *)
LEMMA ClientAlone ==
  ASSUME TypeOK, NEW c \in Clients, Client(c) \/ LinkBreaks(c) \/ Quit(c)
  PROVE  /\ daemon' = daemon
         /\ \A x \in Clients \ {c} : Side(x)' = Side(x) /\ link'[x] = link[x]
<1>1. daemon' = daemon /\ UNCHANGED confVars /\ spc' = spc
  BY DEF Client, CliConnect, CliHello, CliAuthRequest, CliAck,
     CliHandshakeFails, CliReply, CliData, CliSize, CliError, CliEnd,
     CliLost, CliVerify, CliSigpipe, LinkBreaks, Quit, srvVars
<1>2. ASSUME NEW x \in Clients \ {c}
      PROVE  UNCHANGED <<cpc[x], c2s[x], s2c[x], cliOpen[x], srvOpen[x],
                         result[x], link[x]>>
  <2>1. CASE \/ CliConnect(c) \/ CliHandshakeFails(c) \/ CliReply(c)
             \/ CliLost(c) \/ CliVerify(c) \/ CliSigpipe(c)
    BY <2>1 DEF CliConnect, CliHandshakeFails, CliReply, CliLost, CliVerify,
       CliSigpipe, CliEnds, CliGoto, CliPops, netVars, TypeOK
  <2>2. CASE CliHello(c) \/ CliAuthRequest(c) \/ CliAck(c)
    BY <2>2 DEF CliHello, CliAuthRequest, CliAck, Requests, CliEnds, CliGoto,
       CliPops, CliSends, TypeOK
  <2>3. CASE CliData(c) \/ CliSize(c) \/ CliError(c) \/ CliEnd(c)
    BY <2>3 DEF CliData, CliSize, CliError, CliEnd, CliEnds, CliGoto, CliPops,
       TypeOK
  <2>4. CASE LinkBreaks(c) \/ Quit(c)
    BY <2>4 DEF LinkBreaks, Quit, CliEnds, CliGoto, cliVars, TypeOK
  <2> QED BY <2>1, <2>2, <2>3, <2>4 DEF Client
<1> QED BY <1>1, <1>2 DEF Side, confVars

(* So does a handler, unless it takes the daemon down; and it sees to it   *)
(* that what is written to its own connection is all it changes there. *)
LEMMA HandlerAlone ==
  ASSUME TypeOK, NEW c \in Clients, Handler(c), ~Dies
  PROVE  /\ UNCHANGED <<daemon, cpc, cliOpen, link, result, op, believes, pw,
                        needsPw>>
         /\ \A x \in Clients \ {c} : Side(x)' = Side(x)
<1>1. CASE Talk(c)
  <2>1. UNCHANGED <<daemon, cpc, cliOpen, link, result, op, believes, pw, needsPw>>
    BY <1>1 DEF Talk, SrvAccept, SrvKey, SrvAuth, SrvHangup, SrvQuery,
       SrvInstallRequest, cliVars, confVars
  <2>2. ASSUME NEW x \in Clients \ {c}
        PROVE  UNCHANGED <<spc[x], c2s[x], s2c[x], srvOpen[x]>>
    BY <1>1 DEF Talk, SrvAccept, SrvKey, SrvAuth, SrvHangup, SrvQuery,
       SrvInstallRequest, SrvGoto, SrvCloses, SrvPops, SrvSends, TypeOK
  <2> QED BY <2>1, <2>2 DEF Side
<1>2. CASE Stream(c)
  <2>1. UNCHANGED <<daemon, cpc, cliOpen, link, result, op, believes, pw, needsPw>>
    BY <1>2 DEF Stream, SrvOpen, SrvSize, SrvStream, SrvEnd, cliVars, confVars
  <2>2. ASSUME NEW x \in Clients \ {c}
        PROVE  UNCHANGED <<spc[x], c2s[x], s2c[x], srvOpen[x]>>
    BY <1>2 DEF Stream, SrvOpen, SrvSize, SrvStream, SrvEnd, SrvGoto,
       SrvSends, TypeOK
  <2> QED BY <2>1, <2>2 DEF Side
<1>3. CASE Tar(c)
  <2>1. UNCHANGED <<daemon, cpc, cliOpen, link, result, op, believes, pw, needsPw>>
    BY <1>3, TarEffect DEF netVars,
       cliVars, confVars
  <2>2. ASSUME NEW x \in Clients \ {c}
        PROVE  UNCHANGED <<spc[x], c2s[x], s2c[x], srvOpen[x]>>
    BY <1>3, TarEffect DEF SrvGoto,
       netVars, TypeOK
  <2> QED BY <2>1, <2>2 DEF Side
<1> QED BY <1>1, <1>2, <1>3, HandlerCases

(* A session depends on its own side only. *)
LEMMA SessionOfSide ==
  ASSUME NEW x \in Clients, Side(x)' = Side(x), Session(x) PROVE Session(x)'
<1>1. /\ cpc'[x] = cpc[x] /\ spc'[x] = spc[x] /\ c2s'[x] = c2s[x]
      /\ s2c'[x] = s2c[x] /\ cliOpen'[x] = cliOpen[x]
      /\ srvOpen'[x] = srvOpen[x] /\ result'[x] = result[x]
      /\ op'[x] = op[x] /\ believes'[x] = believes[x] /\ pw'[x] = pw[x]
      /\ needsPw' = needsPw
  BY DEF Side
<1>2. Request(x)' = Request(x) /\ Password(x)' = Password(x)
  BY <1>1 DEF Request, Password
<1> QED BY <1>1, <1>2 DEF Session, Unconnected, Greeting, AwaitingAuth,
        Authenticating, Requesting, Finishing, Both, Skipped

(* The empty queue is the one of length zero. *)
LEMMA NoFrames == ASSUME NEW F, NEW s \in Seq(F) PROVE s = <<>> <=> Len(s) = 0
OBVIOUS

(* What the sequences of a handshake are made of. *)
LEMMA FewFrames ==
  ASSUME NEW a \in Frame, NEW b \in Frame
  PROVE  /\ Head(<<a>>) = a /\ Tail(<<a>>) = <<>> /\ <<a>> # <<>>
         /\ Head(<<a, b>>) = a /\ Tail(<<a, b>>) = <<b>> /\ <<a, b>> # <<>>
         /\ <<>> \o <<a>> = <<a>> /\ <<>> \o <<a, b>> = <<a, b>>
         /\ Append(<<>>, a) = <<a>>
OBVIOUS

(* Where a session is, by where its client is. *)
LEMMA SessionPhase ==
  ASSUME NEW c \in Clients, Session(c)
  PROVE  /\ cpc[c] = "start" => Unconnected(c)
         /\ cpc[c] = "hello" => Greeting(c)
         /\ cpc[c] = "authreq" => AwaitingAuth(c)
         /\ cpc[c] = "ack" => Authenticating(c)
         /\ cpc[c] = "recv" => Requesting(c)
         /\ cpc[c] \in {"verify", "done"} => Finishing(c)
BY DEF Session, Unconnected, Greeting, AwaitingAuth, Authenticating,
   Requesting, Finishing

(* Taking a frame from the answer to a download leaves the rest of it; the *)
(* frame that ends it is the last. *)
LEMMA AnswerTaken ==
  ASSUME NEW s \in Seq(Frame), s # <<>>
  PROVE  /\ Underway(s) => Head(s).type \in Partial /\ Underway(Tail(s))
         /\ Answered(s) /\ Head(s).type \in Partial => Answered(Tail(s))
         /\ Answered(s) /\ Head(s).type \notin Partial
              => Head(s).type \in Final /\ Tail(s) = <<>>
<1> DEFINE F == Frame
<1> HIDE DEF F
<1>1. s \in Seq(F) /\ Len(s) \in Nat /\ Len(s) > 0
  BY DEF F
<1>2. 1 \in 1 .. Len(s) /\ Head(s) = s[1]
  BY <1>1
<1>3. /\ Tail(s) \in Seq(F) /\ Len(Tail(s)) = Len(s) - 1
      /\ \A i \in 1 .. Len(Tail(s)) : i + 1 \in 1 .. Len(s) /\ Tail(s)[i] = s[i + 1]
  BY <1>1
<1>4. Underway(s) => Head(s).type \in Partial /\ Underway(Tail(s))
  BY <1>2, <1>3 DEF Underway
<1>5. Answered(s) => Head(s).type \in IF Len(s) = 1 THEN Final ELSE Partial
  BY <1>2 DEF Answered
<1>6. Len(s) = 1 => Tail(s) = <<>>
  BY <1>1, <1>3, NoFrames
<1>7. ASSUME Answered(s), Len(s) # 1 PROVE Answered(Tail(s))
  <2>1. Tail(s) # <<>>
    <3>1. Tail(s) = <<>> => Len(Tail(s)) = 0
      BY <1>3, NoFrames
    <3> QED BY <1>1, <1>3, <1>7, <3>1
  <2>2. ASSUME NEW i \in 1 .. Len(Tail(s))
        PROVE  Tail(s)[i].type \in IF i = Len(Tail(s)) THEN Final ELSE Partial
    <3>1. s[i + 1].type \in IF i + 1 = Len(s) THEN Final ELSE Partial
      BY <1>3, <1>7 DEF Answered
    <3>2. i + 1 = Len(s) <=> i = Len(Tail(s))
      BY <1>1, <1>3
    <3> QED BY <1>3, <3>1, <3>2
  <2> QED BY <2>1, <2>2 DEF Answered
<1>8. Final \cap Partial = {}
  BY DEF Final, Partial
<1> QED BY <1>4, <1>5, <1>6, <1>7, <1>8

(* A command that ended without success has no session any more. *)
LEMMA SessionOver ==
  ASSUME TypeOK, NEW c \in Clients, NEW r \in {"failed", "killed"},
         CliEnds(c, r)
  PROVE  Session(c)'
<1>1. cpc'[c] = "done" /\ result'[c] = r
  BY DEF CliEnds, CliGoto, TypeOK
<1> QED BY <1>1 DEF Session, Finishing

(* A step of the client keeps its session, whatever phase it is in. *)
LEMMA SessionClient ==
  ASSUME TypeOK, VerdictInv, NEW c \in Clients, Client(c), Session(c),
         link[c] = "up", daemon = "up"
  PROVE  Session(c)'
<1>1. /\ UNCHANGED <<spc, op, believes, pw, needsPw>>
      /\ Request(c)' = Request(c) /\ Password(c)' = Password(c)
      /\ Skipped(c)' = Skipped(c)
  <2>1. UNCHANGED <<spc, op, believes, pw, needsPw>>
    BY DEF Client, CliConnect, CliHello, CliAuthRequest, CliAck,
       CliHandshakeFails, CliReply, CliData, CliSize, CliError, CliEnd,
       CliLost, CliVerify, CliSigpipe, srvVars, confVars
  <2> QED BY <2>1 DEF Request, Password, Skipped
<1>2. /\ Msg("KEY") \in Frame /\ Msg("HELLO") \in Frame
      /\ Msg("AUTH_REQUEST") \in Frame /\ Msg("HELLO_ACK") \in Frame
      /\ Request(c) \in Frame /\ Password(c) \in Frame
  BY MsgIsFrame DEF Request, Password, MsgType
<1>3. c2s[c] \in Seq(Frame) /\ s2c[c] \in Seq(Frame)
  BY DEF TypeOK
<1>4. ASSUME srvOpen[c], NEW ms \in Seq(Frame), CliSends(c, ms), c2s[c] = <<>>
      PROVE  c2s'[c] = <<>> \o ms
  BY <1>4 DEF CliSends, SrvGone, TypeOK
<1>5. CASE CliConnect(c)
  <2>1. /\ cpc'[c] = "hello" /\ cliOpen'[c] /\ srvOpen'[c]
        /\ c2s'[c] = c2s[c] /\ s2c'[c] = s2c[c] /\ cpc[c] = "start"
    BY <1>5 DEF CliConnect, CliGoto, TypeOK
  <2>2. Unconnected(c)
    BY <2>1, SessionPhase
  <2> QED BY <1>1, <2>1, <2>2 DEF Unconnected, Session, Greeting, Both
<1>6. CASE CliHello(c)
  <2>1. Greeting(c) /\ s2c[c] # <<>>
    BY <1>6, SessionPhase DEF CliHello, CliGets
  <2>2. s2c'[c] = <<>> /\ srvOpen' = srvOpen
    BY <1>2, <1>6, <2>1, FewFrames DEF CliHello, CliPops, Greeting, TypeOK
  <2>3. CASE believes[c]
    <3>1. /\ cpc'[c] = "authreq" /\ CliSends(c, <<Msg("KEY")>>)
          /\ cliOpen' = cliOpen
      BY <1>6, <2>3 DEF CliHello, CliGoto, TypeOK
    <3>2. c2s'[c] = <<Msg("KEY")>>
      <4>1. <<Msg("KEY")>> \in Seq(Frame) /\ <<>> \o <<Msg("KEY")>> = <<Msg("KEY")>>
        BY <1>2, FewFrames
      <4> QED BY <1>4, <2>1, <3>1, <4>1 DEF Greeting, Both
    <3>3. AwaitingAuth(c)'
      BY <1>1, <2>1, <2>2, <2>3, <3>1, <3>2 DEF AwaitingAuth, Greeting, Both
    <3> QED BY <3>3 DEF Session
  <2>4. CASE ~believes[c] /\ CliEnds(c, "failed")
    BY <2>4, SessionOver
  <2>5. CASE ~believes[c] /\ ~CliEnds(c, "failed")
    <3>1. /\ cpc'[c] = "recv" /\ CliSends(c, <<Msg("KEY"), Request(c)>>)
          /\ cliOpen' = cliOpen
      BY <1>6, <2>5 DEF CliHello, Requests, CliGoto, TypeOK
    <3>2. c2s'[c] = <<Msg("KEY"), Request(c)>>
      <4>1. /\ <<Msg("KEY"), Request(c)>> \in Seq(Frame)
            /\ <<>> \o <<Msg("KEY"), Request(c)>> = <<Msg("KEY"), Request(c)>>
        BY <1>2, FewFrames
      <4> QED BY <1>4, <2>1, <3>1, <4>1 DEF Greeting, Both
    <3>3. Requesting(c)'
      BY <1>1, <2>1, <2>2, <2>5, <3>1, <3>2 DEF Requesting, Greeting, Both
    <3> QED BY <3>3 DEF Session
  <2> QED BY <2>3, <2>4, <2>5
<1>7. CASE CliAuthRequest(c)
  <2>1. AwaitingAuth(c) /\ s2c[c] # <<>>
    BY <1>7, SessionPhase DEF CliAuthRequest, CliGets
  <2>2. /\ s2c'[c] = <<>> /\ cliOpen' = cliOpen /\ srvOpen' = srvOpen
        /\ cpc'[c] = "ack" /\ CliSends(c, <<Password(c)>>)
    BY <1>2, <1>7, <2>1, FewFrames
    DEF CliAuthRequest, CliPops, CliGoto, AwaitingAuth, TypeOK
  <2>3. c2s'[c] = <<Password(c)>>
    <3>1. <<Password(c)>> \in Seq(Frame) /\ <<>> \o <<Password(c)>> = <<Password(c)>>
      BY <1>2, FewFrames
    <3>2. s2c[c] # <<>> /\ Head(s2c[c]).type = "AUTH_REQUEST"
      BY <1>7 DEF CliAuthRequest, CliGets
    <3>3. srvOpen[c] /\ c2s[c] = <<>>
      BY <2>1, <3>2 DEF AwaitingAuth, Both
    <3> QED BY <1>4, <2>2, <3>1, <3>3
  <2>4. Authenticating(c)'
    BY <1>1, <2>1, <2>2, <2>3 DEF Authenticating, AwaitingAuth, Both
  <2> QED BY <2>4 DEF Session
<1>8. CASE CliAck(c)
  <2>1. Authenticating(c) /\ s2c[c] # <<>>
    BY <1>8, SessionPhase DEF CliAck, CliGets
  <2>2. /\ srvOpen' = srvOpen
        /\ CliSends(c, <<Request(c)>>) /\ s2c'[c] = Tail(s2c[c])
    BY <1>8 DEF CliAck, CliPops, TypeOK
  <2>5. CASE CliEnds(c, "failed")
    BY <2>5, SessionOver
  <2>3. CASE spc[c] = "gone"
    <3>1. Head(s2c[c]).type = "HELLO_ACK"
      BY <1>8 DEF CliAck, CliGets
    <3>2. s2c[c] = <<Msg("ERROR")>>
      BY <2>1, <2>3 DEF Authenticating
    <3>3. Head(<<Msg("ERROR")>>) = Msg("ERROR")
      BY MsgIsFrame, FewFrames DEF MsgType
    <3> QED BY <3>1, <3>2, <3>3 DEF Msg
  <2>4. CASE spc[c] # "gone" /\ ~CliEnds(c, "failed")
    <3>4. cpc'[c] = "recv" /\ cliOpen' = cliOpen
      BY <1>8, <2>4 DEF CliAck, Requests, CliGoto, TypeOK
    <3>1. s2c[c] = <<Msg("HELLO_ACK")>> /\ c2s[c] = <<>> /\ srvOpen[c] /\ spc[c] = "loop"
      BY <2>1, <2>4 DEF Authenticating
    <3>2. c2s'[c] = <<Request(c)>> /\ s2c'[c] = <<>>
      <4>1. <<Request(c)>> \in Seq(Frame) /\ <<>> \o <<Request(c)>> = <<Request(c)>>
        BY <1>2, FewFrames
      <4>2. Tail(<<Msg("HELLO_ACK")>>) = <<>>
        BY <1>2, FewFrames
      <4> QED BY <1>4, <2>2, <3>1, <4>1, <4>2
    <3>3. Requesting(c)'
      BY <1>1, <2>1, <2>2, <3>1, <3>2, <3>4 DEF Requesting, Authenticating
    <3> QED BY <3>3 DEF Session
  <2> QED BY <2>3, <2>4, <2>5
<1>9. CASE CliHandshakeFails(c) \/ CliError(c) \/ CliSigpipe(c)
  BY <1>9, SessionOver DEF CliHandshakeFails, CliError, CliSigpipe
<1>10. ASSUME cpc[c] = "recv"
       PROVE  Requesting(c)
  BY <1>10, SessionPhase
<1>11. ASSUME cpc[c] = "recv", s2c[c] # <<>>, Head(s2c[c]).type \in Partial,
              CliPops(c), UNCHANGED <<cpc, c2s, cliOpen, srvOpen>>
       PROVE  Session(c)'
  <2>1. s2c'[c] = Tail(s2c[c])
    BY <1>11 DEF CliPops, TypeOK
  <2>2. /\ Underway(s2c[c]) => Underway(s2c'[c])
        /\ Answered(s2c[c]) => Answered(s2c'[c])
    BY <1>3, <1>11, <2>1, AnswerTaken
  <2>3. Requesting(c)'
    BY <1>1, <1>10, <1>11, <2>2 DEF Requesting
  <2> QED BY <2>3 DEF Session
<1>12. ASSUME cpc[c] = "recv", s2c[c] # <<>>, Head(s2c[c]).type \notin Partial
       PROVE  \/ Skipped(c)
              \/ /\ c2s[c] = <<>> /\ spc[c] = "loop"
                 /\ Head(s2c[c]).type \in Final
  <2>1. ~Underway(s2c[c]) /\ (Answered(s2c[c]) => Head(s2c[c]).type \in Final)
    BY <1>3, <1>12, AnswerTaken
  <2> QED BY <1>10, <1>12, <2>1 DEF Requesting
<1>13. ASSUME cpc'[c] \in {"verify", "done"}, c2s' = c2s,
              Skipped(c) \/ (c2s[c] = <<>> /\ spc[c] \in {"loop", "gone"})
       PROVE  Session(c)'
  BY <1>1, <1>13 DEF Session, Finishing
<1>14. CASE CliReply(c)
  <2>1. CASE CliEnds(c, "failed")
    BY <2>1, SessionOver
  <2>2. CASE CliGets(c, "REPLY") /\ CliEnds(c, "ok")
    <3>1. cpc'[c] = "done" /\ c2s' = c2s /\ cpc[c] = "recv"
      BY <1>14, <2>2 DEF CliReply, CliEnds, CliGoto, TypeOK
    <3>2. s2c[c] # <<>> /\ Head(s2c[c]).type \notin Partial
      BY <2>2 DEF CliGets, Partial
    <3> QED BY <1>12, <1>13, <3>1, <3>2
  <2> QED BY <1>14, <2>1, <2>2 DEF CliReply
<1>15. CASE CliData(c)
  <2>1. /\ cpc[c] = "recv" /\ s2c[c] # <<>> /\ Head(s2c[c]).type \in Partial
        /\ CliPops(c) /\ UNCHANGED <<cpc, c2s, cliOpen, srvOpen>>
    BY <1>15 DEF CliData, CliGets, Partial
  <2> QED BY <1>11, <2>1
<1>16. CASE CliSize(c)
  <2>1. CASE mpkg /\ op[c] = "install"
    BY <1>16, <2>1, SessionOver DEF CliSize
  <2>2. CASE ~(mpkg /\ op[c] = "install")
    <3>1. /\ cpc[c] = "recv" /\ s2c[c] # <<>> /\ Head(s2c[c]).type \in Partial
          /\ CliPops(c) /\ UNCHANGED <<cpc, c2s, cliOpen, srvOpen>>
      BY <1>16, <2>2 DEF CliSize, CliGets, Partial
    <3> QED BY <1>11, <3>1
  <2> QED BY <2>1, <2>2
<1>17. CASE CliEnd(c)
  <2>1. cpc'[c] = "verify" /\ c2s' = c2s /\ cpc[c] = "recv"
    BY <1>17 DEF CliEnd, CliGoto, TypeOK
  <2>2. s2c[c] # <<>> /\ Head(s2c[c]).type \notin Partial
    BY <1>17 DEF CliEnd, CliGets, Partial
  <2> QED BY <1>12, <1>13, <2>1, <2>2
<1>18. CASE CliLost(c)
  <2>1. cpc'[c] = "verify" /\ c2s' = c2s /\ cpc[c] = "recv"
    BY <1>18 DEF CliLost, CliGoto, netVars, TypeOK
  <2>2. CASE CliEOF(c)
    <3>1. ~srvOpen[c]
      BY <2>2 DEF CliEOF, SrvGone
    <3> QED BY <1>10, <1>13, <2>1, <3>1 DEF Requesting
  <2>3. CASE s2c[c] # <<>> /\ Head(s2c[c]).type \in Clear
    BY <1>12, <1>13, <2>1, <2>3 DEF Clear, Partial, Final
  <2> QED BY <1>18, <2>2, <2>3 DEF CliLost
<1>19. CASE CliVerify(c)
  <2>1. CASE expect[c] # NoSum /\ Sum(out[c]) # expect[c]
    BY <1>19, <2>1, SessionOver DEF CliVerify
  <2>2. CASE ~(expect[c] # NoSum /\ Sum(out[c]) # expect[c])
    <3>1. cpc'[c] = "done" /\ c2s' = c2s /\ cpc[c] = "verify"
      BY <1>19, <2>2 DEF CliVerify, CliEnds, CliGoto, TypeOK
    <3>2. Finishing(c) /\ result[c] = "none"
      BY <3>1, SessionPhase DEF VerdictInv
    <3> QED BY <1>13, <3>1, <3>2 DEF Finishing
  <2> QED BY <2>1, <2>2
<1> QED BY <1>5, <1>6, <1>7, <1>8, <1>9, <1>14, <1>15, <1>16, <1>17, <1>18,
           <1>19 DEF Client

(* The answer grows by frames of a download and ends with a final one. *)
LEMMA AnswerGrows ==
  ASSUME NEW s \in Seq(Frame), Underway(s), NEW m \in Frame
  PROVE  /\ m.type \in Partial => Underway(Append(s, m))
         /\ m.type \in Final => Answered(Append(s, m))
<1> DEFINE F == Frame
<1> HIDE DEF F
<1>1. s \in Seq(F) /\ m \in F
  BY DEF F
<1>2. /\ Append(s, m) \in Seq(F) /\ Len(Append(s, m)) = Len(s) + 1
      /\ \A i \in 1 .. Len(s) : Append(s, m)[i] = s[i]
      /\ Append(s, m)[Len(s) + 1] = m
      /\ Len(s) \in Nat
  BY <1>1
<1>3. \A i \in 1 .. Len(s) : Append(s, m)[i].type \in Partial
  BY <1>2 DEF Underway
<1>4. Append(s, m) # <<>>
  <2>1. Append(s, m) = <<>> => Len(Append(s, m)) = 0
    BY <1>2, NoFrames
  <2> QED BY <1>2, <2>1
<1> QED BY <1>2, <1>3, <1>4 DEF Underway, Answered

(* A step of the handler keeps the session as well. *)
LEMMA SessionHandler ==
  ASSUME TypeOK, FileInv, NEW c \in Clients, Handler(c), ~Dies, Session(c),
         link[c] = "up"
  PROVE  Session(c)'
<1>1. /\ UNCHANGED <<cpc, cliOpen, link, result, op, believes, pw, needsPw>>
      /\ Request(c)' = Request(c) /\ Password(c)' = Password(c)
      /\ Skipped(c)' = Skipped(c)
  <2>1. UNCHANGED <<cpc, cliOpen, link, result, op, believes, pw, needsPw>>
    BY HandlerAlone
  <2> QED BY <2>1 DEF Request, Password, Skipped
<1>2. /\ Msg("KEY") \in Frame /\ Msg("HELLO") \in Frame
      /\ Msg("AUTH_REQUEST") \in Frame /\ Msg("HELLO_ACK") \in Frame
      /\ Msg("ERROR") \in Frame /\ Msg("REPLY") \in Frame
      /\ Msg("INSTALL_ERROR") \in Frame /\ Msg("SIZE") \in Frame
      /\ Request(c) \in Frame /\ Password(c) \in Frame
  BY MsgIsFrame DEF Request, Password, MsgType
<1>3. c2s[c] \in Seq(Frame) /\ s2c[c] \in Seq(Frame)
  BY DEF TypeOK
<1>4. ASSUME cliOpen[c], NEW m \in Frame, SrvSends(c, m)
      PROVE  /\ s2c'[c] = Append(s2c[c], m)
             /\ s2c[c] = <<>> => s2c'[c] = <<m>>
  <2>1. s2c'[c] = Append(s2c[c], m)
    BY <1>4 DEF SrvSends, CliGone, TypeOK
  <2>2. Append(<<>>, m) = <<m>>
    BY <1>4, FewFrames
  <2> QED BY <2>1, <2>2
<1>5. ASSUME SrvPops(c) PROVE c2s'[c] = Tail(c2s[c])
  BY <1>5 DEF SrvPops, TypeOK
<1>6. ASSUME cpc[c] \in {"verify", "done"},
             Skipped(c) \/ result[c] \in {"failed", "killed"}
      PROVE  Session(c)'
  BY <1>1, <1>6 DEF Session, Finishing
<1>7. CASE SrvAccept(c)
  <2>1. spc[c] = "listen" /\ srvOpen[c]
    BY <1>7 DEF SrvAccept
  <2>2. CASE Greeting(c)
    <3>1. /\ spc'[c] = "key" /\ srvOpen' = srvOpen /\ c2s' = c2s
          /\ SrvSends(c, Msg("HELLO"))
      BY <1>7 DEF SrvAccept, SrvGoto, TypeOK
    <3>2. s2c'[c] = <<Msg("HELLO")>>
      BY <1>2, <1>4, <2>1, <2>2, <3>1 DEF Greeting, Both
    <3>3. Greeting(c)'
      BY <1>1, <2>2, <3>1, <3>2 DEF Greeting, Both
    <3> QED BY <3>3 DEF Session
  <2> QED BY <1>6, <2>1, <2>2 DEF Session, Unconnected, AwaitingAuth,
          Authenticating, Requesting, Finishing, Serving
<1>8. CASE SrvKey(c)
  <2>1. /\ spc[c] = "key" /\ c2s[c] # <<>> /\ Head(c2s[c]).type = "KEY"
        /\ c2s'[c] = Tail(c2s[c]) /\ srvOpen' = srvOpen
    BY <1>5, <1>8 DEF SrvKey, SrvGets
  <2>2. ASSUME needsPw, cliOpen[c], s2c[c] = <<>>
        PROVE  spc'[c] = "auth" /\ s2c'[c] = <<Msg("AUTH_REQUEST")>>
    BY <1>2, <1>4, <1>8, <2>2 DEF SrvKey, SrvGoto, TypeOK
  <2>3. ASSUME ~needsPw
        PROVE  spc'[c] = "loop" /\ s2c'[c] = s2c[c]
    BY <1>8, <2>3 DEF SrvKey, SrvGoto, TypeOK
  <2>4. CASE AwaitingAuth(c)
    <3>1. c2s[c] = <<Msg("KEY")>> /\ s2c[c] = <<>> /\ Both(c) /\ believes[c]
      BY <2>1, <2>4 DEF AwaitingAuth
    <3>2. c2s'[c] = <<>>
      BY <1>2, <2>1, <3>1, FewFrames
    <3>3. AwaitingAuth(c)'
      BY <1>1, <2>1, <2>2, <2>3, <2>4, <3>1, <3>2 DEF AwaitingAuth, Both
    <3> QED BY <3>3 DEF Session
  <2>5. CASE Requesting(c)
    <3>1. /\ c2s[c] = <<Msg("KEY"), Request(c)>> /\ s2c[c] = <<>>
          /\ cliOpen[c] /\ srvOpen[c] /\ ~believes[c] /\ cpc[c] = "recv"
      BY <2>1, <2>5 DEF Requesting, Serving
    <3>2. c2s'[c] = <<Request(c)>>
      BY <1>2, <2>1, <3>1, FewFrames
    <3>3. Requesting(c)'
      <4>1. CASE needsPw
        BY <1>1, <2>1, <2>2, <3>1, <3>2, <4>1 DEF Requesting, Skipped
      <4>2. CASE ~needsPw
        BY <1>1, <2>1, <2>3, <3>1, <3>2, <4>2 DEF Requesting
      <4> QED BY <4>1, <4>2
    <3> QED BY <3>3 DEF Session
  <2> QED BY <1>6, <2>1, <2>4, <2>5 DEF Session, Unconnected, Greeting,
          Authenticating, Finishing
<1>9. CASE SrvAuth(c)
  <2>1. spc[c] = "auth" /\ c2s[c] # <<>> /\ c2s'[c] = Tail(c2s[c])
    BY <1>5, <1>9 DEF SrvAuth
  <2>2. CASE Authenticating(c)
    <3>1. /\ c2s[c] = <<Password(c)>> /\ s2c[c] = <<>> /\ cpc[c] = "ack"
          /\ cliOpen[c] /\ srvOpen[c] /\ believes[c] /\ needsPw
      BY <2>1, <2>2 DEF Authenticating
    <3>2. c2s'[c] = <<>>
      BY <1>2, <2>1, <3>1, FewFrames
    <3>3. CASE RightPassword(c)
      <4>1. /\ spc'[c] = "loop" /\ srvOpen' = srvOpen
            /\ SrvSends(c, Msg("HELLO_ACK"))
        BY <1>9, <3>3 DEF SrvAuth, SrvGoto, TypeOK
      <4>2. s2c'[c] = <<Msg("HELLO_ACK")>>
        BY <1>2, <1>4, <3>1, <4>1
      <4>3. Authenticating(c)'
        BY <1>1, <3>1, <3>2, <4>1, <4>2 DEF Authenticating
      <4> QED BY <4>3 DEF Session
    <3>4. CASE ~RightPassword(c)
      <4>1. SrvCloses(c) /\ (s2c' = s2c \/ SrvSends(c, Msg("ERROR")))
        BY <1>9, <3>4 DEF SrvAuth
      <4>2. spc'[c] = "gone" /\ ~srvOpen'[c]
        BY <4>1 DEF SrvCloses, SrvGoto, TypeOK
      <4>3. s2c'[c] \in {<<>>, <<Msg("ERROR")>>}
        BY <1>2, <1>4, <3>1, <4>1
      <4>4. Authenticating(c)'
        BY <1>1, <3>1, <4>2, <4>3 DEF Authenticating
      <4> QED BY <4>4 DEF Session
    <3> QED BY <3>3, <3>4
  <2>3. CASE Requesting(c)
    <3>1. /\ c2s[c] = <<Request(c)>> /\ Skipped(c)
          /\ cpc[c] = "recv" /\ cliOpen[c]
      BY <2>1, <2>3 DEF Requesting, Serving
    <3>2. ~RightPassword(c)
      BY <1>2, <3>1, FewFrames DEF RightPassword, SrvGets, Request, Msg
    <3>3. spc'[c] = "gone"
      BY <1>9, <3>2 DEF SrvAuth, SrvCloses, SrvGoto, TypeOK
    <3>4. Requesting(c)'
      BY <1>1, <3>1, <3>3 DEF Requesting
    <3> QED BY <3>4 DEF Session
  <2> QED BY <1>6, <2>1, <2>2, <2>3 DEF Session, Unconnected, Greeting,
          AwaitingAuth, Finishing
<1>10. CASE SrvHangup(c)
  <2>1. ~cliOpen[c] /\ c2s[c] = <<>> /\ spc[c] # "listen"
    BY <1>10 DEF SrvHangup, SrvEOF, CliGone
  <2>2. spc'[c] = "gone" /\ c2s' = c2s
    BY <1>10 DEF SrvHangup, SrvCloses, SrvGoto, TypeOK
  <2>3. Finishing(c)
    BY <2>1 DEF Session, Unconnected, Greeting, AwaitingAuth, Authenticating,
       Requesting, Both
  <2>4. Finishing(c)'
    BY <1>1, <2>1, <2>2, <2>3 DEF Finishing
  <2> QED BY <2>4 DEF Session
<1>11. ASSUME spc[c] = "loop", c2s[c] # <<>>
       PROVE  \/ cpc[c] \in {"verify", "done"}
                   /\ (Skipped(c) \/ result[c] \in {"failed", "killed"})
              \/ /\ cpc[c] = "recv" /\ cliOpen[c] /\ srvOpen[c]
                 /\ c2s[c] = <<Request(c)>> /\ s2c[c] = <<>>
  BY <1>11 DEF Session, Unconnected, Greeting, AwaitingAuth, Authenticating,
     Requesting, Finishing, Serving
<1>12. Tail(<<Request(c)>>) = <<>> /\ Underway(<<>>)
  BY <1>2, FewFrames DEF Underway
<1>13. ASSUME NEW t \in Final PROVE Answered(<<Msg(t)>>)
  BY <1>13 DEF Answered, Msg
<1>14. CASE SrvQuery(c)
  <2>1. /\ spc[c] = "loop" /\ c2s[c] # <<>> /\ c2s'[c] = Tail(c2s[c])
        /\ spc' = spc /\ srvOpen' = srvOpen /\ SrvSends(c, Msg("REPLY"))
    BY <1>5, <1>14 DEF SrvQuery, SrvGets
  <2>2. CASE /\ cpc[c] = "recv" /\ cliOpen[c] /\ srvOpen[c]
             /\ c2s[c] = <<Request(c)>> /\ s2c[c] = <<>>
    <3>1. c2s'[c] = <<>> /\ s2c'[c] = <<Msg("REPLY")>>
      BY <1>2, <1>4, <1>12, <2>1, <2>2
    <3>2. Requesting(c)'
      BY <1>1, <1>13, <2>1, <2>2, <3>1 DEF Requesting, Final
    <3> QED BY <3>2 DEF Session
  <2> QED BY <1>6, <1>11, <2>1, <2>2
<1>15. CASE SrvInstallRequest(c)
  <2>1. /\ spc[c] = "loop" /\ c2s[c] # <<>> /\ c2s'[c] = Tail(c2s[c])
        /\ srvOpen' = srvOpen
    BY <1>5, <1>15 DEF SrvInstallRequest, SrvGets
  <2>2. CASE /\ cpc[c] = "recv" /\ cliOpen[c] /\ srvOpen[c]
             /\ c2s[c] = <<Request(c)>> /\ s2c[c] = <<>>
    <3>1. c2s'[c] = <<>>
      BY <1>12, <2>1, <2>2
    <3>2. CASE registered
      <4>1. spc'[c] = "find" /\ s2c'[c] = <<>>
        BY <1>15, <2>2, <3>2 DEF SrvInstallRequest, SrvGoto, TypeOK
      <4>2. Requesting(c)'
        BY <1>1, <1>12, <2>1, <2>2, <3>1, <4>1 DEF Requesting
      <4> QED BY <4>2 DEF Session
    <3>3. CASE ~registered
      <4>1. spc' = spc /\ SrvSends(c, Msg("INSTALL_ERROR"))
        BY <1>15, <3>3 DEF SrvInstallRequest
      <4>2. s2c'[c] = <<Msg("INSTALL_ERROR")>>
        BY <1>2, <1>4, <2>2, <4>1
      <4>3. Requesting(c)'
        BY <1>1, <1>13, <2>1, <2>2, <3>1, <4>1, <4>2 DEF Requesting, Final
      <4> QED BY <4>3 DEF Session
    <3> QED BY <3>2, <3>3
  <2> QED BY <1>6, <1>11, <2>1, <2>2
<1>16. ASSUME spc[c] \in {"find"} \cup Serving, c2s' = c2s,
              srvOpen' = srvOpen,
              \/ /\ spc'[c] \in {"find"} \cup Serving
                 /\ \/ s2c' = s2c
                    \/ \E m \in Frame : m.type \in Partial /\ SrvSends(c, m)
              \/ /\ spc'[c] = "loop"
                 /\ \E m \in Frame : m.type \in Final /\ SrvSends(c, m)
       PROVE  Session(c)'
  <2>1. CASE Requesting(c)
    <3>1. /\ cpc[c] = "recv" /\ cliOpen[c]
          /\ c2s[c] = <<>> /\ Underway(s2c[c]) /\ srvOpen[c]
      BY <1>16, <2>1 DEF Requesting, Serving
    <3>2. CASE spc'[c] = "loop"
      <4>1. PICK m \in Frame : m.type \in Final /\ SrvSends(c, m)
        BY <1>16, <3>2 DEF Serving
      <4>2. Answered(s2c'[c])
        BY <1>3, <1>4, <3>1, <4>1, AnswerGrows
      <4>3. Requesting(c)'
        BY <1>1, <1>16, <3>1, <3>2, <4>2 DEF Requesting
      <4> QED BY <4>3 DEF Session
    <3>3. CASE spc'[c] # "loop"
      <4>1. Underway(s2c'[c])
        <5>1. CASE s2c' = s2c
          BY <3>1, <5>1
        <5>2. ASSUME NEW m \in Frame, m.type \in Partial, SrvSends(c, m)
              PROVE  Underway(s2c'[c])
          BY <1>3, <1>4, <3>1, <5>2, AnswerGrows
        <5> QED BY <1>16, <3>3, <5>1, <5>2
      <4>2. Requesting(c)'
        BY <1>1, <1>16, <3>1, <3>3, <4>1 DEF Requesting
      <4> QED BY <4>2 DEF Session
    <3> QED BY <3>2, <3>3
  <2> QED BY <1>6, <1>16, <2>1 DEF Session, Unconnected, Greeting,
          AwaitingAuth, Authenticating, Finishing, Serving
<1>17. CASE Tar(c)
  <2>1. /\ spc[c] \in {"find"} \cup Serving
        /\ c2s' = c2s /\ srvOpen' = srvOpen /\ s2c' = s2c
        /\ spc'[c] \in {"find"} \cup Serving
    BY <1>17, TarEffect DEF SrvGoto,
       netVars, Serving, TypeOK
  <2> QED BY <1>16, <2>1
<1>18. CASE SrvOpen(c)
  <2>1. spc[c] = "open" /\ c2s' = c2s /\ srvOpen' = srvOpen
    BY <1>18 DEF SrvOpen
  <2>2. CASE tarFile = NoFile
    <3>1. spc'[c] = "loop" /\ SrvSends(c, Msg("INSTALL_ERROR"))
      BY <1>18, <2>2 DEF SrvOpen, SrvGoto, TypeOK
    <3>2. Msg("INSTALL_ERROR").type \in Final
      BY DEF Msg, Final
    <3> QED BY <1>2, <1>16, <2>1, <3>1, <3>2 DEF Serving
  <2>3. CASE tarFile # NoFile
    <3>1. spc'[c] = "size" /\ s2c' = s2c
      BY <1>18, <2>3 DEF SrvOpen, SrvGoto, TypeOK
    <3> QED BY <1>16, <2>1, <3>1 DEF Serving
  <2> QED BY <2>2, <2>3
<1>19. CASE SrvSize(c)
  <2>1. /\ spc[c] = "size" /\ c2s' = c2s /\ srvOpen' = srvOpen
        /\ spc'[c] = "stream" /\ SrvSends(c, Msg("SIZE"))
    BY <1>19 DEF SrvSize, SrvGoto, TypeOK
  <2>2. Msg("SIZE").type \in Partial
    BY DEF Msg, Partial
  <2> QED BY <1>2, <1>16, <2>1, <2>2 DEF Serving
<1>20. CASE SrvStream(c)
  <2>1. /\ spc[c] = "stream" /\ c2s' = c2s /\ srvOpen' = srvOpen
        /\ spc'[c] \in {"stream", "end"}
    BY <1>20 DEF SrvStream, SrvGoto, TypeOK
  <2>2. s2c' = s2c \/ \E m \in Frame : m.type \in Partial /\ SrvSends(c, m)
    <3>1. CASE pos[c] < Len(disk[file[c]])
      <4> DEFINE m == Data(disk[file[c]][pos[c] + 1])
      <4>1. file[c] \in Files
        BY <2>1 DEF FileInv
      <4>2. disk[file[c]] \in Content /\ pos[c] + 1 \in 1 .. Len(disk[file[c]])
        BY <3>1, <4>1 DEF TypeOK, Content
      <4>3. m \in Frame /\ m.type \in Partial
        BY <4>2, ContentGrows, DataIsFrame DEF Data, Partial
      <4>4. SrvSends(c, m)
        BY <1>20, <3>1 DEF SrvStream
      <4> QED BY <4>3, <4>4
    <3>2. CASE ~(pos[c] < Len(disk[file[c]]))
      BY <1>20, <3>2 DEF SrvStream
    <3> QED BY <3>1, <3>2
  <2> QED BY <1>16, <2>1, <2>2 DEF Serving
<1>21. CASE SrvEnd(c)
  <2>1. /\ spc[c] = "end" /\ c2s' = c2s /\ srvOpen' = srvOpen
        /\ spc'[c] = "loop" /\ SrvSends(c, End(TarSum))
    BY <1>21 DEF SrvEnd, SrvGoto, TypeOK
  <2>2. End(TarSum) \in Frame /\ End(TarSum).type \in Final
    BY TarSumIsChecksum, EndIsFrame DEF End, Final
  <2> QED BY <1>16, <2>1, <2>2 DEF Serving
<1> QED BY <1>7, <1>8, <1>9, <1>10, <1>14, <1>15, <1>17, <1>18, <1>19, <1>20,
           <1>21, HandlerCases DEF Talk, Stream

(* Every unharmed connection is in one of the phases of a session. *)
LEMMA SessionStep ==
  ASSUME TypeOK, FileInv, VerdictInv, SessionInv, [Next]_vars
  PROVE  SessionInv'
<1> SUFFICES ASSUME NEW x \in Clients, link'[x] = "up", daemon' = "up"
             PROVE  Session(x)'
  BY DEF SessionInv
<1>1. ASSUME Side(x)' = Side(x), link'[x] = link[x], daemon' = daemon
      PROVE  Session(x)'
  BY <1>1, SessionOfSide DEF SessionInv
<1>2. ASSUME NEW c \in Clients, Client(c) \/ LinkBreaks(c) \/ Quit(c)
      PROVE  Session(x)'
  <2>1. CASE c # x
    BY <1>1, <1>2, <2>1, ClientAlone
  <2>2. CASE c = x /\ LinkBreaks(x)
    BY <2>2 DEF LinkBreaks, TypeOK
  <2>3. CASE c = x /\ Quit(x)
    BY <2>3, SessionOver DEF Quit
  <2>4. CASE c = x /\ Client(x)
    <3>1. link' = link
      BY <2>4 DEF Client, CliConnect, CliHello, CliAuthRequest, CliAck,
         CliHandshakeFails, CliReply, CliData, CliSize, CliError, CliEnd,
         CliLost, CliVerify, CliSigpipe, netVars
    <3>2. daemon' = daemon
      BY <2>4, ClientAlone
    <3> QED BY <2>4, <3>1, <3>2, SessionClient DEF SessionInv
  <2> QED BY <1>2, <2>1, <2>2, <2>3, <2>4
<1>3. ASSUME NEW c \in Clients, Handler(c) PROVE Session(x)'
  <2>1. CASE Dies
    BY <2>1 DEF Dies
  <2>2. CASE ~Dies
    <3>1. daemon' = daemon /\ link' = link
      BY <1>3, <2>2, HandlerAlone
    <3>2. CASE c # x
      BY <1>1, <1>3, <2>2, <3>1, <3>2, HandlerAlone
    <3>3. CASE c = x
      BY <1>3, <2>2, <3>1, <3>3, SessionHandler DEF SessionInv
    <3> QED BY <3>2, <3>3
  <2> QED BY <2>1, <2>2
<1>4. ASSUME Operator \/ Finished \/ UNCHANGED vars PROVE Session(x)'
  <2>1. UNCHANGED <<spc, daemon, netVars, cliVars, confVars>>
    BY <1>4, OperatorAside DEF Finished, vars, srvVars
  <2> QED BY <1>1, <2>1 DEF Side, netVars, cliVars, confVars
<1> QED BY <1>2, <1>3, <1>4 DEF Next

(* What once happened to a connection, to the daemon, to a command or to   *)
(* the package has happened for good. *)
LEMMA Stays ==
  ASSUME TypeOK, DirInv, VerdictInv, [Next]_vars
  PROVE  /\ Operated => Operated'
         /\ daemon = "dead" => daemon' = "dead"
         /\ UNCHANGED <<needsPw, op, believes>>
         /\ \A x \in Clients :
              /\ link[x] # "up" => link'[x] # "up"
              /\ result[x] # "none" => result'[x] = result[x]
              /\ Skipped(x)' = Skipped(x)
<1>1. UNCHANGED <<needsPw, op, believes>> /\ \A x \in Clients : Skipped(x)' = Skipped(x)
  BY ConfKept DEF confVars, Skipped
<1>2. CASE \E c \in Clients : Client(c) \/ LinkBreaks(c) \/ Quit(c)
  <2>1. PICK c \in Clients : Client(c) \/ LinkBreaks(c) \/ Quit(c)
    BY <1>2
  <2>2. UNCHANGED dirVars
    BY <2>1 DEF Client, CliConnect, CliHello, CliAuthRequest, CliAck,
       CliHandshakeFails, CliReply, CliData, CliSize, CliError, CliEnd,
       CliLost, CliVerify, CliSigpipe, LinkBreaks, Quit, diskVars
  <2>3. daemon' = daemon
    BY <2>1, ClientAlone
  <2>4. \A x \in Clients : link[x] # "up" => link'[x] # "up"
    <3>1. CASE LinkBreaks(c)
      BY <3>1 DEF LinkBreaks, TypeOK
    <3>2. CASE Client(c) \/ Quit(c)
      BY <3>2 DEF Client, CliConnect, CliHello, CliAuthRequest, CliAck,
         CliHandshakeFails, CliReply, CliData, CliSize, CliError, CliEnd,
         CliLost, CliVerify, CliSigpipe, Quit, netVars
    <3> QED BY <2>1, <3>1, <3>2
  <2>5. ASSUME NEW x \in Clients, result[x] # "none" PROVE result'[x] = result[x]
    <3>1. cpc[x] = "done"
      BY <2>5 DEF VerdictInv
    <3>2. CASE x = c
      <4>1. CASE LinkBreaks(c)
        BY <4>1 DEF LinkBreaks, cliVars
      <4>2. CASE Client(c) \/ Quit(c)
        BY <3>1, <3>2, <4>2 DEF Client, CliConnect, CliHello, CliAuthRequest,
           CliAck, CliHandshakeFails, CliReply, CliData, CliSize, CliError,
           CliEnd, CliLost, CliVerify, CliSigpipe, Quit
      <4> QED BY <2>1, <4>1, <4>2
    <3>3. CASE x # c
      BY <2>1, <3>3, ClientAlone DEF Side
    <3> QED BY <3>2, <3>3
  <2> QED BY <1>1, <2>2, <2>3, <2>4, <2>5 DEF Operated, dirVars
<1>3. CASE \E c \in Clients : Handler(c)
  <2>1. PICK c \in Clients : Handler(c)
    BY <1>3
  <2>2. UNCHANGED dirVars
    BY <2>1, HandlerLeavesDir
  <2>3. CASE Dies
    BY <1>1, <2>2, <2>3 DEF Dies, Operated, dirVars, cliVars
  <2>4. CASE ~Dies
    BY <1>1, <2>1, <2>2, <2>4, HandlerAlone DEF Operated, dirVars
  <2> QED BY <2>3, <2>4
<1>4. CASE Operator \/ Finished \/ UNCHANGED vars
  <2>1. UNCHANGED <<daemon, netVars, cliVars>>
    BY <1>4, OperatorAside DEF Finished, vars, srvVars
  <2>2. Operated => Operated'
    BY <1>4, OperatorShows DEF Finished, vars, diskVars, dirVars, Operated
  <2> QED BY <1>1, <2>1, <2>2 DEF netVars, cliVars
<1> QED BY <1>2, <1>3, <1>4 DEF Next

(* Taking frames from a queue, losing its end and adding a frame of a set  *)
(* of frames keep a queue in the set. *)
LEMMA QueueOf ==
  ASSUME NEW P, NEW s \in Seq(P)
  PROVE  /\ s # <<>> => Tail(s) \in Seq(P)
         /\ \A k \in 0 .. Len(s) : SubSeq(s, 1, k) \in Seq(P)
         /\ \A m \in P : Append(s, m) \in Seq(P)
         /\ s # <<>> => Head(s) \in P
<1>1. ASSUME NEW k \in 0 .. Len(s) PROVE SubSeq(s, 1, k) \in Seq(P)
  OBVIOUS
<1> QED BY <1>1

(* The frames that announce an archive announce its checksum too. *)
Summed == {m \in Frame : m.type = "INSTALL_END" => m.sum # NoSum}

(* Before any operator's command a queue of announcements is one of those. *)
LEMMA SummedQueue ==
  ASSUME NEW s \in Seq(Frame), EndsSummed(s), ~Operated
  PROVE  s \in Seq(Summed)
<1> DEFINE F == Frame
<1> HIDE DEF F
<1>1. s \in Seq(F)
  BY DEF F
<1>2. ASSUME NEW P, \A i \in 1 .. Len(s) : s[i] \in P PROVE s \in Seq(P)
  BY <1>1, <1>2
<1>3. \A i \in 1 .. Len(s) : s[i] \in F
  BY <1>1
<1>4. \A i \in 1 .. Len(s) : s[i] \in Summed
  BY <1>3 DEF F, Summed, EndsSummed
<1> QED BY <1>2, <1>4

(* What a step may do to the frames under way to one client, when no       *)
(* operator has acted. *)
SummedStep(c) ==
  \/ s2c' = s2c
  \/ s2c[c] # <<>> /\ s2c' = [s2c EXCEPT ![c] = Tail(@)]
  \/ \E k \in 0 .. Len(s2c[c]) : s2c' = [s2c EXCEPT ![c] = SubSeq(@, 1, k)]
  \/ \E m \in Summed : s2c' = [s2c EXCEPT ![c] = Append(@, m)]

(* A frame other than INSTALL_END is such a step. *)
LEMMA SummedSend ==
  ASSUME NEW c \in Clients, NEW t \in MsgType \ {"INSTALL_END"},
         SrvSends(c, Msg(t))
  PROVE  SummedStep(c)
<1>1. Msg(t) \in Summed
  BY MsgIsFrame DEF Msg, Summed
<1> QED BY <1>1 DEF SrvSends, SummedStep

(* Clients only take frames. *)
LEMMA SummedClient ==
  ASSUME TypeOK, NEW c \in Clients, Client(c) \/ LinkBreaks(c) \/ Quit(c)
  PROVE  SummedStep(c)
<1>1. CASE LinkBreaks(c)
  BY <1>1 DEF LinkBreaks, SummedStep
<1>2. CASE Quit(c)
  BY <1>2 DEF Quit, SummedStep
<1>3. CASE Client(c)
  <2>1. s2c' = s2c \/ (s2c[c] # <<>> /\ CliPops(c))
    BY <1>3 DEF Client, CliConnect, CliHello, CliAuthRequest, CliAck,
       CliHandshakeFails, CliReply, CliData, CliSize, CliError, CliEnd,
       CliLost, CliVerify, CliSigpipe, CliGets, netVars
  <2> QED BY <2>1 DEF CliPops, SummedStep
<1> QED BY <1>1, <1>2, <1>3

(* Handlers send a checksum as long as the archive is there. *)
LEMMA SummedHandler ==
  ASSUME TypeOK, FileInv, SumInv, ~Operated, NEW c \in Clients, Handler(c)
  PROVE  SummedStep(c)
<1>1. ASSUME s2c' = s2c PROVE SummedStep(c)
  BY <1>1 DEF SummedStep
<1>2. CASE Talk(c)
  <2>1. \/ s2c' = s2c
        \/ \E t \in MsgType \ {"INSTALL_END"} : SrvSends(c, Msg(t))
    BY <1>2 DEF Talk, SrvAccept, SrvKey, SrvAuth, SrvHangup, SrvQuery,
       SrvInstallRequest, MsgType
  <2> QED BY <1>1, <2>1, SummedSend
<1>3. CASE SrvOpen(c) \/ SrvSize(c)
  <2>1. \/ s2c' = s2c
        \/ \E t \in MsgType \ {"INSTALL_END"} : SrvSends(c, Msg(t))
    BY <1>3 DEF SrvOpen, SrvSize, MsgType
  <2> QED BY <1>1, <2>1, SummedSend
<1>4. CASE SrvStream(c)
  <2>1. CASE pos[c] < Len(disk[file[c]])
    <3> DEFINE m == Data(disk[file[c]][pos[c] + 1])
    <3>1. file[c] \in Files
      BY <1>4 DEF SrvStream, FileInv
    <3>2. disk[file[c]] \in Content /\ pos[c] + 1 \in 1 .. Len(disk[file[c]])
      BY <2>1, <3>1 DEF TypeOK, Content
    <3>3. m \in Frame /\ m.type # "INSTALL_END"
      BY <3>2, ContentGrows, DataIsFrame DEF Data
    <3>4. SrvSends(c, m)
      BY <1>4, <2>1 DEF SrvStream
    <3> QED BY <3>3, <3>4 DEF SrvSends, SummedStep, Summed
  <2>2. CASE ~(pos[c] < Len(disk[file[c]]))
    BY <1>1, <1>4, <2>2 DEF SrvStream
  <2> QED BY <2>1, <2>2
<1>5. CASE SrvEnd(c)
  <2>1. tarFile \in Files
    BY <1>5 DEF SrvEnd, SumInv, Serving, TypeOK
  <2>2. End(TarSum) \in Frame /\ End(TarSum).sum = TarSum
    BY TarSumIsChecksum, EndIsFrame DEF End
  <2>3. TarSum # NoSum
    BY <2>1, SumIsChecksum, IdentitiesAssumption DEF TarSum, TypeOK
  <2> QED BY <1>5, <2>2, <2>3 DEF SrvEnd, SrvSends, SummedStep, Summed
<1>6. CASE Tar(c) \/ Dies
  BY <1>1, <1>6, TarEffect DEF Dies,
     netVars
<1> QED BY <1>2, <1>3, <1>4, <1>5, <1>6, HandlerCases DEF Stream

(* An announcement without a checksum takes an operator's command. *)
LEMMA EndsSummedStep ==
  ASSUME TypeOK, FileInv, DirInv, VerdictInv, SumInv, [Next]_vars, NEW x \in Clients,
         ~Operated'
  PROVE  EndsSummed(s2c[x])'
<1>1. ~Operated
  BY Stays
<1>2. s2c[x] \in Seq(Summed)
  <2>1. s2c[x] \in Seq(Frame)
    BY DEF TypeOK
  <2> QED BY <1>1, <2>1, SummedQueue DEF SumInv
<1>3. s2c'[x] \in Seq(Summed)
  <2>1. CASE s2c' = s2c
    BY <1>2, <2>1
  <2>2. ASSUME NEW c \in Clients, SummedStep(c), c # x PROVE s2c'[x] = s2c[x]
    BY <2>2 DEF SummedStep, TypeOK
  <2>3. CASE SummedStep(x)
    <3>1. \/ s2c'[x] = s2c[x]
          \/ s2c[x] # <<>> /\ s2c'[x] = Tail(s2c[x])
          \/ \E k \in 0 .. Len(s2c[x]) : s2c'[x] = SubSeq(s2c[x], 1, k)
          \/ \E m \in Summed : s2c'[x] = Append(s2c[x], m)
      BY <2>3 DEF SummedStep, TypeOK
    <3>2. ASSUME NEW k \in 0 .. Len(s2c[x]) PROVE SubSeq(s2c[x], 1, k) \in Seq(Summed)
      BY <1>2, QueueOf
    <3>3. ASSUME NEW m \in Summed PROVE Append(s2c[x], m) \in Seq(Summed)
      BY <1>2, QueueOf
    <3>4. s2c[x] # <<>> => Tail(s2c[x]) \in Seq(Summed)
      BY <1>2, QueueOf
    <3> QED BY <1>2, <3>1, <3>2, <3>3, <3>4
  <2>4. (\E c \in Clients : SummedStep(c)) \/ s2c' = s2c
    <3>1. ASSUME NEW c \in Clients, Client(c) \/ LinkBreaks(c) \/ Quit(c)
          PROVE  SummedStep(c)
      BY <3>1, SummedClient
    <3>2. ASSUME NEW c \in Clients, Handler(c) PROVE SummedStep(c)
      BY <1>1, <3>2, SummedHandler
    <3>3. ASSUME Operator \/ Finished \/ UNCHANGED vars PROVE s2c' = s2c
      BY <3>3, OperatorAside DEF Finished, vars, netVars
    <3> QED BY <3>1, <3>2, <3>3 DEF Next
  <2> QED BY <1>2, <2>1, <2>2, <2>3, <2>4
<1> DEFINE P == Summed
<1> HIDE DEF P
<1>4. \A i \in 1 .. Len(s2c'[x]) : s2c'[x][i] \in P
  <2>1. s2c'[x] \in Seq(P)
    BY <1>3 DEF P
  <2> QED BY <2>1
<1> QED BY <1>4 DEF P, Summed, EndsSummed

(* A handler that sends finds its archive, unless an operator acted. *)
LEMMA ArchiveThere ==
  ASSUME TypeOK, DirInv, VerdictInv, SumInv, [Next]_vars, ~Operated'
  PROVE  \A x \in Clients : spc'[x] \in {"size", "stream", "end"} => tarFile' # NoFile
<1>1. \A x \in Clients : spc[x] \in {"size", "stream", "end"} => tarFile # NoFile
  BY Stays DEF SumInv
<1>2. CASE \E c \in Clients : Client(c) \/ LinkBreaks(c) \/ Quit(c)
  BY <1>1, <1>2, ClientLeavesServer DEF serverSide
<1>3. ASSUME NEW c \in Clients, Handler(c)
      PROVE  \A x \in Clients :
               spc'[x] \in {"size", "stream", "end"} => tarFile' # NoFile
  <2>1. CASE Talk(c)
    <3>1. tarFile' = tarFile
      BY <2>1, TalkEffect
    <3>2. CASE spc' = spc
      BY <1>1, <3>1, <3>2
    <3>3. CASE \E l \in SrvPc \ Serving : spc' = [spc EXCEPT ![c] = l]
      BY <1>1, <3>1, <3>3 DEF TypeOK, Serving
    <3> QED BY <2>1, <3>2, <3>3, TalkEffect
  <2>2. CASE SrvOpen(c)
    <3>1. CASE tarFile = NoFile
      <4>1. spc' = [spc EXCEPT ![c] = "loop"] /\ tarFile' = tarFile
        BY <2>2, <3>1 DEF SrvOpen, SrvGoto, diskVars
      <4> QED BY <1>1, <4>1 DEF TypeOK
    <3>2. CASE tarFile # NoFile
      BY <2>2, <3>2 DEF SrvOpen, diskVars
    <3> QED BY <3>1, <3>2
  <2>3. CASE SrvSize(c) \/ SrvStream(c) \/ SrvEnd(c)
    <3>1. tarFile' = tarFile /\ spc[c] \in {"size", "stream", "end"}
      BY <2>3 DEF SrvSize, SrvStream, SrvEnd, diskVars
    <3> QED BY <1>1, <3>1
  <2>4. CASE SrvTarCreate(c)
    BY <2>4, IdentitiesAssumption DEF SrvTarCreate
  <2>5. CASE Tar(c) /\ ~SrvTarCreate(c)
    <3>1. tarFile' = tarFile
      BY <2>5 DEF Tar, SrvBuildTar, SrvLists, SrvTarWrite, SrvTarDone, SrvTarFails,
         diskVars
    <3>2. \A x \in Clients : spc'[x] \in {"size", "stream", "end"}
                               => spc[x] \in {"size", "stream", "end"}
      <4>1. CASE spc' = spc
        BY <4>1
      <4>2. CASE \E l \in {"list", "create", "write", "open"} :
                   spc' = [spc EXCEPT ![c] = l]
        BY <4>2 DEF TypeOK
      <4> QED BY <2>5, <4>1, <4>2, TarEffect
    <3> QED BY <1>1, <3>1, <3>2
  <2>6. CASE Dies
    BY <2>6 DEF Dies
  <2> QED BY <1>3, <2>1, <2>2, <2>3, <2>4, <2>5, <2>6, HandlerCases DEF Stream
<1>4. CASE Operator
  BY <1>4, OperatorShows
<1>5. CASE Finished \/ UNCHANGED vars
  BY <1>1, <1>5, IdleLeavesServer DEF serverSide
<1> QED BY <1>2, <1>3, <1>4, <1>5 DEF Next

(* A download that ends without INSTALL_END on an unharmed connection is   *)
(* one whose client skipped the password. *)
LEMMA LostSkipped ==
  ASSUME TypeOK, NEW c \in Clients, CliLost(c), Session(c), link[c] = "up"
  PROVE  Skipped(c)
<1>1. Requesting(c)
  BY SessionPhase DEF CliLost
<1>2. CASE CliEOF(c)
  <2>1. ~srvOpen[c]
    BY <1>2 DEF CliEOF, SrvGone
  <2> QED BY <1>1, <2>1 DEF Requesting
<1>3. CASE s2c[c] # <<>> /\ Head(s2c[c]).type \in Clear
  <2>1. s2c[c] \in Seq(Frame) /\ Head(s2c[c]).type \notin Partial \cup Final
    BY <1>3 DEF TypeOK, Clear, Partial, Final
  <2>2. ~Underway(s2c[c]) /\ ~Answered(s2c[c])
    BY <1>3, <2>1, AnswerTaken
  <2> QED BY <1>1, <1>3, <2>2 DEF Requesting
<1> QED BY <1>2, <1>3 DEF CliLost

(* What excuses a download that is not compared with a checksum. *)
Excuse(c) == link[c] # "up" \/ daemon = "dead" \/ Skipped(c) \/ Operated

(* Excuses last. *)
LEMMA ExcuseStays ==
  ASSUME TypeOK, DirInv, VerdictInv, [Next]_vars, NEW c \in Clients, Excuse(c)
  PROVE  Excuse(c)'
BY Stays DEF Excuse

(* How a client comes to compare checksums. *)
LEMMA VerifyStep ==
  ASSUME TypeOK, DirInv, VerdictInv, SessionInv, SumInv, [Next]_vars, NEW x \in Clients,
         op'[x] # "query", cpc'[x] = "verify", expect'[x] = NoSum
  PROVE  Excuse(x)'
<1>1. op' = op /\ op[x] # "query"
  BY Stays
<1>2. ASSUME cpc'[x] = cpc[x], expect'[x] = expect[x] PROVE Excuse(x)'
  <2>1. Excuse(x)
    BY <1>1, <1>2 DEF SumInv, Excuse
  <2> QED BY <2>1, ExcuseStays
<1>3. ASSUME NEW c \in Clients, Client(c) \/ LinkBreaks(c) \/ Quit(c)
      PROVE  Excuse(x)'
  <2>1. CASE c # x
    <3>1. cpc'[x] = cpc[x]
      BY <1>3, <2>1, ClientAlone DEF Side
    <3>2. expect'[x] = expect[x]
      BY <1>3, <2>1 DEF Client, CliConnect, CliHello, CliAuthRequest, CliAck,
         CliHandshakeFails, CliReply, CliData, CliSize, CliError, CliEnd,
         CliLost, CliVerify, CliSigpipe, LinkBreaks, Quit, cliVars, TypeOK
    <3> QED BY <1>2, <3>1, <3>2
  <2>2. CASE c = x /\ CliEnd(x)
    <3>1. CliGets(x, "INSTALL_END") /\ Head(s2c[x]).sum = NoSum
      BY <2>2 DEF CliEnd, TypeOK
    <3>2. s2c[x] \in Seq(Frame) /\ s2c[x] # <<>> /\ EndsSummed(s2c[x])
      BY <3>1 DEF CliGets, TypeOK, SumInv
    <3>3. 1 \in 1 .. Len(s2c[x]) /\ Head(s2c[x]) = s2c[x][1]
      <4> DEFINE F == Frame
      <4>1. s2c[x] \in Seq(F) /\ s2c[x] # <<>>
        BY <3>2
      <4> HIDE DEF F
      <4> QED BY <4>1
    <3>4. Operated
      BY <3>1, <3>2, <3>3 DEF EndsSummed, CliGets
    <3> QED BY <3>4, ExcuseStays DEF Excuse
  <2>3. CASE c = x /\ CliLost(x)
    <3>1. CASE link[x] = "up" /\ daemon = "up"
      <4>1. Skipped(x)
        BY <2>3, <3>1, LostSkipped DEF SessionInv
      <4> QED BY <4>1, ExcuseStays DEF Excuse
    <3>2. CASE ~(link[x] = "up" /\ daemon = "up")
      <4>1. Excuse(x)
        BY <3>2 DEF Excuse, TypeOK
      <4> QED BY <4>1, ExcuseStays
    <3> QED BY <3>1, <3>2
  <2>4. CASE c = x /\ ~CliEnd(x) /\ ~CliLost(x)
    <3>1. cpc'[x] = cpc[x] /\ expect'[x] = expect[x]
      BY <1>3, <2>4 DEF Client, CliConnect, CliHello, CliAuthRequest, CliAck,
         CliHandshakeFails, CliReply, CliData, CliSize, CliError, CliVerify,
         CliSigpipe, LinkBreaks, Quit, Requests, cliVars, CliEnds, CliGoto, TypeOK
    <3> QED BY <1>2, <3>1
  <2> QED BY <2>1, <2>2, <2>3, <2>4
<1>4. ASSUME NEW c \in Clients, Handler(c) PROVE Excuse(x)'
  <2>1. CASE Dies
    BY <2>1 DEF Dies, Excuse
  <2>2. CASE ~Dies
    <3>1. cpc' = cpc
      BY <1>4, <2>2, HandlerAlone
    <3>2. expect' = expect
      <4>1. CASE Talk(c) \/ Stream(c)
        BY <4>1 DEF Talk, SrvAccept, SrvKey, SrvAuth, SrvHangup, SrvQuery,
           SrvInstallRequest, Stream, SrvOpen, SrvSize, SrvStream, SrvEnd, cliVars
      <4>2. CASE Tar(c)
        BY <4>2, TarEffect DEF cliVars
      <4> QED BY <1>4, <2>2, <4>1, <4>2, HandlerCases
    <3> QED BY <1>2, <3>1, <3>2
  <2> QED BY <2>1, <2>2
<1>5. ASSUME Operator \/ Finished \/ UNCHANGED vars PROVE Excuse(x)'
  BY <1>2, <1>5, OperatorAside DEF Finished, vars, cliVars
<1> QED BY <1>3, <1>4, <1>5 DEF Next

(* Archives and checksums are missing only after an operator's command, *)
(* and clients end up without one only when something was cut. *)
LEMMA SumStep ==
  ASSUME TypeOK, FileInv, DirInv, VerdictInv, SessionInv, SumInv, [Next]_vars
  PROVE  SumInv'
<1>1. ASSUME NEW x \in Clients
      PROVE  /\ spc'[x] \in {"size", "stream", "end"} /\ tarFile' = NoFile => Operated'
             /\ EndsSummed(s2c[x])'
             /\ op'[x] # "query" /\ cpc'[x] = "verify" /\ expect'[x] = NoSum
                  => Excuse(x)'
  <2>1. EndsSummed(s2c[x])'
    BY EndsSummedStep DEF EndsSummed
  <2> QED BY <2>1, ArchiveThere, VerifyStep
<1> QED BY <1>1 DEF SumInv, Excuse

(* The threads of a dead daemon are gone and stay so. *)
LEMMA DaemonStep == ASSUME TypeOK, DaemonInv, [Next]_vars PROVE DaemonInv'
<1>1. CASE \E c \in Clients : Client(c) \/ LinkBreaks(c) \/ Quit(c)
  <2>1. spc' = spc
    BY <1>1, ClientLeavesServer DEF serverSide
  <2>2. daemon' = daemon
    BY <1>1, ClientAlone
  <2> QED BY <2>1, <2>2 DEF DaemonInv
<1>2. ASSUME NEW c \in Clients, Handler(c) PROVE DaemonInv'
  <2>1. CASE Dies
    BY <2>1 DEF Dies, DaemonInv
  <2>2. CASE ~Dies
    <3>1. daemon' = daemon
      BY <1>2, <2>2, HandlerAlone
    <3>2. spc[c] # "gone"
      BY <1>2, <2>2 DEF Handler, SrvAccept, SrvKey, SrvAuth, SrvHangup,
         SrvQuery, SrvInstallRequest, SrvBuildTar, SrvLists, SrvListThrows,
         SrvTarCreate, SrvTarWrite, SrvTarDone, SrvTarFails, SrvOpen, SrvSize,
         SrvSizeThrows, SrvStream, SrvEnd, SrvSigpipe
    <3> QED BY <3>1, <3>2 DEF DaemonInv, TypeOK
  <2> QED BY <2>1, <2>2
<1>3. CASE Operator \/ Finished \/ UNCHANGED vars
  BY <1>3, OperatorAside DEF Finished, vars, srvVars, DaemonInv
<1> QED BY <1>1, <1>2, <1>3 DEF Next

(* A good verdict without a checksum has an excuse. *)
LEMMA UncheckedStep ==
  ASSUME TypeOK, FileInv, DirInv, VerdictInv, SessionInv, SumInv, UncheckedOnlyWhenCut,
         [Next]_vars
  PROVE  UncheckedOnlyWhenCut'
<1> SUFFICES ASSUME NEW x \in Clients, op'[x] # "query", result'[x] = "ok",
                    expect'[x] = NoSum
             PROVE  Excuse(x)'
  BY DEF UncheckedOnlyWhenCut, Excuse, Skipped, Operated
<1>1. op' = op /\ op[x] # "query"
  BY Stays
<1>2. ASSUME result'[x] = result[x], expect'[x] = expect[x] PROVE Excuse(x)'
  <2>1. Excuse(x)
    BY <1>1, <1>2 DEF UncheckedOnlyWhenCut, Excuse, Skipped, Operated
  <2> QED BY <2>1, ExcuseStays
<1>3. ASSUME NEW c \in Clients, Client(c) \/ LinkBreaks(c) \/ Quit(c)
      PROVE  Excuse(x)'
  <2>1. CASE c # x
    <3>1. result'[x] = result[x]
      BY <1>3, <2>1, ClientAlone DEF Side
    <3>2. expect'[x] = expect[x]
      BY <1>3, <2>1 DEF Client, CliConnect, CliHello, CliAuthRequest, CliAck,
         CliHandshakeFails, CliReply, CliData, CliSize, CliError, CliEnd,
         CliLost, CliVerify, CliSigpipe, LinkBreaks, Quit, cliVars, TypeOK
    <3> QED BY <1>2, <3>1, <3>2
  <2>2. CASE c = x /\ CliVerify(x)
    <3>1. expect' = expect /\ cpc[x] = "verify"
      BY <2>2 DEF CliVerify
    <3>2. Excuse(x)
      BY <1>1, <3>1 DEF SumInv, Excuse
    <3> QED BY <3>2, ExcuseStays
  <2>3. CASE c = x /\ CliReply(x)
    BY <1>1, <2>3 DEF CliReply
  <2>4. CASE c = x /\ CliEnd(x)
    <3>1. result' = result /\ cpc[x] = "recv"
      BY <2>4 DEF CliEnd
    <3> QED BY <3>1 DEF VerdictInv
  <2>5. CASE c = x /\ ~CliVerify(x) /\ ~CliReply(x) /\ ~CliEnd(x)
    <3>1. expect' = expect
      BY <1>3, <2>5 DEF Client, CliConnect, CliHello, CliAuthRequest, CliAck,
         CliHandshakeFails, CliData, CliSize, CliError, CliLost,
         CliSigpipe, LinkBreaks, Quit, cliVars
    <3>2. result'[x] = result[x]
      BY <1>3, <2>5 DEF Client, CliConnect, CliHello, CliAuthRequest, CliAck,
         CliHandshakeFails, CliData, CliSize, CliError, CliLost,
         CliSigpipe, LinkBreaks, Quit, Requests, cliVars, CliEnds, TypeOK
    <3> QED BY <1>2, <3>1, <3>2
  <2> QED BY <1>3, <2>1, <2>2, <2>3, <2>4, <2>5 DEF Client
<1>4. ASSUME NEW c \in Clients, Handler(c) PROVE Excuse(x)'
  <2>1. UNCHANGED cliVars
    <3>1. CASE Talk(c) \/ Stream(c)
      BY <3>1 DEF Talk, SrvAccept, SrvKey, SrvAuth, SrvHangup, SrvQuery,
         SrvInstallRequest, Stream, SrvOpen, SrvSize, SrvStream, SrvEnd
    <3>2. CASE \/ Tar(c) \/ Dies
      BY <3>2, TarEffect DEF Dies
    <3> QED BY <1>4, <3>1, <3>2, HandlerCases
  <2> QED BY <1>2, <2>1 DEF cliVars
<1>5. ASSUME Operator \/ Finished \/ UNCHANGED vars PROVE Excuse(x)'
  BY <1>2, <1>5, OperatorAside DEF Finished, vars, cliVars
<1> QED BY <1>3, <1>4, <1>5 DEF Next

(* What the daemon can die of. *)
Left(c) == link[c] # "up" \/ result[c] \in {"killed", "failed"}
             \/ believes[c] # needsPw

(* A handler that sends to a client that is gone has been left. *)
LEMMA SendsToLeaver ==
  ASSUME TypeOK, SessionInv, daemon = "up", NEW c \in Clients, SrvSigpipe(c)
  PROVE  Left(c)
<1> SUFFICES ASSUME link[c] = "up" PROVE Left(c)
  BY DEF Left
<1>1. ~cliOpen[c] /\ AboutToSend(c)
  BY DEF SrvSigpipe, CliGone
<1>2. Session(c)
  BY DEF SessionInv
<1>3. Unconnected(c) \/ Finishing(c)
  BY <1>1, <1>2 DEF Session, Greeting, AwaitingAuth, Authenticating, Requesting, Both
<1>4. CASE Unconnected(c)
  BY <1>1, <1>4 DEF Unconnected, AboutToSend
<1>5. CASE Finishing(c)
  <2>1. ~(c2s[c] = <<>> /\ spc[c] \in {"loop", "gone"})
    BY <1>1 DEF AboutToSend, SrvGets
  <2>2. Skipped(c) => believes[c] # needsPw
    BY DEF Skipped
  <2> QED BY <1>5, <2>1, <2>2 DEF Finishing, Left
<1> QED BY <1>3, <1>4, <1>5

(* The daemon dies only of a client that left it or of an operator. *)
LEMMA DiesStep ==
  ASSUME TypeOK, DirInv, VerdictInv, SessionInv, SumInv, DiesOnlyOfLeavers, [Next]_vars
  PROVE  DiesOnlyOfLeavers'
<1> SUFFICES ASSUME daemon' = "dead"
             PROVE  (\E c \in Clients : Left(c)') \/ Operated'
  BY DEF DiesOnlyOfLeavers, Left, Operated
<1>1. ASSUME NEW c \in Clients, Left(c) PROVE Left(c)'
  BY <1>1, Stays DEF Left
<1>2. CASE daemon = "dead"
  <2>1. (\E c \in Clients : Left(c)) \/ Operated
    BY <1>2 DEF DiesOnlyOfLeavers, Left, Operated
  <2> QED BY <1>1, <2>1, Stays
<1>3. CASE daemon # "dead"
  <2>1. daemon = "up"
    BY <1>3 DEF TypeOK
  <2>2. ASSUME NEW c \in Clients, Client(c) \/ LinkBreaks(c) \/ Quit(c) PROVE FALSE
    BY <1>3, <2>2, ClientAlone
  <2>3. ASSUME Operator \/ Finished \/ UNCHANGED vars PROVE FALSE
    BY <1>3, <2>3, OperatorAside DEF Finished, vars, srvVars
  <2>4. PICK c \in Clients : Handler(c)
    BY <2>2, <2>3 DEF Next
  <2>5. CASE SrvSizeThrows(c)
    <3>1. Operated
      BY <2>5 DEF SrvSizeThrows, SumInv, Serving
    <3> QED BY <3>1, Stays
  <2>6. CASE SrvSigpipe(c)
    <3>1. Left(c)
      BY <2>1, <2>6, SendsToLeaver
    <3> QED BY <1>1, <3>1
  <2>8. CASE SrvListThrows(c)
    <3>1. Operated
      BY <2>8 DEF SrvListThrows, Operated
    <3> QED BY <3>1, Stays
  <2>7. CASE ~SrvSizeThrows(c) /\ ~SrvSigpipe(c) /\ ~SrvListThrows(c)
    <3>1. daemon' = daemon
      <4>1. CASE Talk(c) \/ Stream(c)
        BY <4>1 DEF Talk, SrvAccept, SrvKey, SrvAuth, SrvHangup, SrvQuery,
           SrvInstallRequest, Stream, SrvOpen, SrvSize, SrvStream, SrvEnd
      <4>2. CASE Tar(c)
        BY <4>2, TarEffect
      <4> QED BY <2>4, <2>7, <4>1, <4>2 DEF Handler, Talk, Stream, Tar
    <3> QED BY <1>3, <3>1
  <2> QED BY <2>5, <2>6, <2>7, <2>8
<1> QED BY <1>2, <1>3

-----------------------------------------------------------------------------
(* The invariant and what follows from it.                                 *)

(* The conjunction behind the theorems below is inductive. *)
THEOREM Invariant == Spec => []Inv
<1>1. Init => Inv
  <2> SUFFICES ASSUME Init PROVE Inv
    OBVIOUS
  <2>1. FileInv /\ MutexInv /\ DirInv
    BY DEF Init, FileInv, MutexInv, DirInv
  <2>7. ArchiveInv
    BY DEF Init, ArchiveInv
  <2>2. EndInv /\ VerdictInv
    BY DEF Init, EndInv, EndsWhole, VerdictInv, Verified
  <2>3. AuthInv
    BY NoOffer DEF Init, AuthInv, ServesOnlyAuthenticated, Serving
  <2>4. SessionInv /\ DaemonInv
    BY DEF Init, SessionInv, Session, Unconnected, DaemonInv
  <2>5. SumInv
    BY DEF Init, SumInv, EndsSummed, Serving
  <2>6. UncheckedOnlyWhenCut /\ DiesOnlyOfLeavers
    BY DEF Init, UncheckedOnlyWhenCut, DiesOnlyOfLeavers
  <2> QED BY <2>1, <2>2, <2>3, <2>4, <2>5, <2>6, <2>7, TypeInit DEF Inv, CutInv
<1>2. Inv /\ [Next]_vars => Inv'
  <2> SUFFICES ASSUME Inv, [Next]_vars PROVE Inv'
    OBVIOUS
  <2>1. (TypeOK /\ FileInv /\ MutexInv /\ DirInv /\ ArchiveInv)'
    BY TypeStep, FileStep, MutexStep, DirStep, ArchiveStep DEF Inv
  <2>2. (EndInv /\ VerdictInv /\ AuthInv)'
    BY EndStep, VerdictStep, AuthStep DEF Inv
  <2>3. (SessionInv /\ DaemonInv /\ SumInv)'
    BY SessionStep, DaemonStep, SumStep DEF Inv, CutInv
  <2>4. (UncheckedOnlyWhenCut /\ DiesOnlyOfLeavers)'
    BY UncheckedStep, DiesStep DEF Inv, CutInv
  <2> QED BY <2>1, <2>2, <2>3, <2>4 DEF Inv, CutInv
<1> QED BY <1>1, <1>2, PTL DEF Spec

(* A server that needs a password serves nobody who did not give it. *)
THEOREM Authenticated == Spec => []ServesOnlyAuthenticated
<1>1. Inv => ServesOnlyAuthenticated
  BY DEF Inv, AuthInv
<1> QED BY <1>1, Invariant, PTL

(* Client and handler wait for each other only on a link that died         *)
(* silently, or because the client expects to be asked for a password. *)
THEOREM NoDeadlock == Spec => []BlockedOnlyByStaleBelief
<1>1. Inv => BlockedOnlyByStaleBelief
  <2> SUFFICES ASSUME Inv, NEW c \in Clients, CliBlocked(c), SrvBlocked(c),
                      link[c] # "silent"
               PROVE  believes[c] /\ ~needsPw
    BY DEF BlockedOnlyByStaleBelief
  <2>1. link[c] = "up" /\ cliOpen[c] /\ srvOpen[c]
    BY DEF CliBlocked, SrvBlocked, CliEOF, SrvEOF, CliGone, SrvGone, Inv, TypeOK
  <2>2. daemon = "up"
    BY DEF SrvBlocked, Inv, CutInv, DaemonInv, TypeOK
  <2>3. Session(c) /\ c2s[c] = <<>> /\ s2c[c] = <<>>
    BY <2>1, <2>2 DEF CliBlocked, SrvBlocked, Inv, CutInv, SessionInv
  <2>4. /\ <<Msg("HELLO")>> # <<>> /\ <<Msg("AUTH_REQUEST")>> # <<>>
        /\ <<Msg("KEY")>> # <<>> /\ <<Msg("HELLO_ACK")>> # <<>>
        /\ <<Password(c)>> # <<>> /\ <<Request(c)>> # <<>>
        /\ <<Msg("KEY"), Request(c)>> # <<>>
    BY FewFrames, MsgIsFrame DEF Password, Request, MsgType
  <2>5. ~Answered(s2c[c])
    BY <2>3 DEF Answered
  <2> QED BY <2>1, <2>3, <2>4, <2>5 DEF Session, Unconnected, Greeting,
          AwaitingAuth, Authenticating, Requesting, Finishing, CliBlocked,
          SrvBlocked, Serving
<1> QED BY <1>1, Invariant, PTL

(* A download passes unchecked only when something was cut or removed. *)
THEOREM Unchecked == Spec => []UncheckedOnlyWhenCut
<1>1. Inv => UncheckedOnlyWhenCut
  BY DEF Inv, CutInv
<1> QED BY <1>1, Invariant, PTL

(* Clients that wait for their answers do not bring the daemon down. *)
THEOREM DaemonSurvives == Spec => []DiesOnlyOfLeavers
<1>1. Inv => DiesOnlyOfLeavers
  BY DEF Inv, CutInv
<1> QED BY <1>1, Invariant, PTL

(* A checked download is a complete archive when no operator's command was *)
(* under way or broken off as build_tar began and from then until          *)
(* INSTALL_END no operator's step, no other request and no failure of tar  *)
(* came between. *)
THEOREM Undisturbed == Spec => []UndisturbedIsComplete
<1>1. Inv => UndisturbedIsComplete
  <2> SUFFICES ASSUME Inv, NEW c \in Clients, Verified(c), quiet[c]
               PROVE  Complete(out[c])
    BY DEF UndisturbedIsComplete
  <2>1. WholeSum(expect[c]) /\ Sum(out[c]) = expect[c]
    BY DEF Inv, EndInv, VerdictInv, Verified
  <2>2. Sum(out[c]) = Sum(expect[c].of) /\ Complete(expect[c].of)
    BY <2>1 DEF WholeSum
  <2>3. out[c] = expect[c].of
    BY <2>2 DEF Sum
  <2> QED BY <2>2, <2>3
<1> QED BY <1>1, Invariant, PTL

=============================================================================
