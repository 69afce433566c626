--------------------------- MODULE InstallProofs ----------------------------
(* Theorems about Install for any processes, packages and faults, and      *)
(* about Versions, of any length.                                          *)
EXTENDS Install, Versions, WellFoundedInduction, TLAPS

Base == TypeOK /\ CmdInv /\ DirInv

(* A step of another process does no harm to the quiet process r. *)
Kept(r) ==
  /\ pc'[r] = pc[r] /\ checked'[r] = checked[r]
  /\ failed'[r] = failed[r] /\ called' = called
  /\ quiet'[r] =>
       /\ quiet[r]
       /\ cmd'[r] = cmd[r] /\ fd'[r] = fd[r] /\ pos'[r] = pos[r]
       /\ todo'[r] = todo[r] /\ dir'[r] = dir[r]
       /\ \A n \in Names : saved[n] \subseteq saved'[n]
       /\ \A n \in Names : n = cmd[r].pkg /\ pc[r] \notin Ended =>
            Installed(n) \subseteq Installed(n)'
       /\ pc[r] \in {"got", "tar"} /\ WholeTar(r) =>
            /\ tar'[cmd[r].pkg] = tar[cmd[r].pkg]
            /\ data'[tar[cmd[r].pkg]] = data[tar[cmd[r].pkg]]

(* The types and the places of the extraction directories, on their own. *)
LEMMA InitBase == Init => Base
  BY BlocksAssumption, CallingsAssumption, ChoicesAssumption
  DEF Init, Base, TypeOK, CmdInv, DirInv, Ended, Blocks

(* Every action keeps them. *)
LEMMA StepBase == Base /\ [Next]_vars => Base'
<1> SUFFICES ASSUME Base, [Next]_vars PROVE Base'
  OBVIOUS
<1> USE BlocksAssumption, ChoicesAssumption, FilesAssumption, NoCommandAssumption
<1> USE DEF Base, TypeOK, CmdInv, DirInv, Ended, Blocks, Goto, Continues, Ends, Quits, Fails,
            cache, result, local, past, Commands
<1>1. ASSUME NEW p \in Procs, NEW k \in Kinds, NEW n \in Names, Starts(p, k, n)
      PROVE  Base'
  BY <1>1 DEF Starts, Active
<1>2. ASSUME NEW p \in Procs, CleansTar(p) PROVE Base'
  BY <1>2 DEF CleansTar, Unlinks
<1>3. ASSUME NEW p \in Procs, CleansDir(p) PROVE Base'
  <2>1. PICK q \in todo[p] \cap Procs :
          \/ /\ \E b \in dir[q] : dir' = [dir EXCEPT ![q] = @ \ {b}]
             /\ UNCHANGED <<hasDir, todo>>
          \/ /\ dir[q] = {}
             /\ hasDir' = hasDir \ {q}
             /\ todo' = [todo EXCEPT ![p] = @ \ {q}]
             /\ UNCHANGED dir
    BY <1>3 DEF CleansDir
  <2>2. /\ pc[p] = "clean"
        /\ UNCHANGED <<tar, data, saved, installed, pc, cmd, fd, pos, called,
                       starts, quiet, checked, failed>>
    BY <1>3 DEF CleansDir, past
  <2>3. CASE /\ \E b \in dir[q] : dir' = [dir EXCEPT ![q] = @ \ {b}]
             /\ UNCHANGED <<hasDir, todo>>
    BY <2>2, <2>3
  <2>4. CASE /\ dir[q] = {}
             /\ hasDir' = hasDir \ {q}
             /\ todo' = [todo EXCEPT ![p] = @ \ {q}]
             /\ UNCHANGED dir
    BY <2>2, <2>4
  <2>5. QED
    BY <2>1, <2>3, <2>4
<1>4. ASSUME NEW p \in Procs, Finds(p) PROVE Base'
  <2>1. CASE Ends(p, "over")
    BY <1>4, <2>1 DEF Finds
  <2>2. CASE ~Ends(p, "over")
    <3>1. PICK s \in {"server", "repo"} : cmd' = [cmd EXCEPT ![p].source = s]
      BY <1>4, <2>2 DEF Finds
    <3>2. cmd[p] \in Commands /\ [cmd[p] EXCEPT !.source = s] \in Commands
      <4>1. pc[p] = "clean"
        BY <1>4 DEF Finds
      <4>2. cmd[p] \in Commands
        BY <4>1
      <4>3. QED
        BY <4>2
    <3>3. cmd' \in [Procs -> Commands \cup {NoCommand}] /\ cmd'[p] \in Commands
      BY <3>1, <3>2
    <3>4. /\ pc[p] = "clean" /\ todo[p] = {} /\ pc' = [pc EXCEPT ![p] = "open"]
          /\ UNCHANGED <<tar, data, hasDir, dir, saved, installed, fd, pos,
                         todo, called, starts, quiet, checked, failed>>
      BY <1>4, <2>2 DEF Finds
    <3>5. TypeOK'
      BY <3>3, <3>4
    <3>6. CmdInv'
      BY <3>1, <3>3, <3>4
    <3>7. DirInv'
      BY <3>1, <3>4
    <3>8. QED
      BY <3>5, <3>6, <3>7
  <2>3. QED
    BY <2>1, <2>2
<1>5. ASSUME NEW p \in Procs, Opens(p) PROVE Base'
  BY <1>5 DEF Opens
<1>6. ASSUME NEW p \in Procs, Receives(p) PROVE Base'
  <2>1. pos[p] + 1 \in Blocks
    BY <1>6 DEF Receives
  <2>2. data' \in [Files -> SUBSET Blocks]
    <3>1. data' \in {data, [data EXCEPT ![fd[p]] = @ \cup {pos[p] + 1}]}
      BY <1>6 DEF Receives
    <3>2. CASE fd[p] \in Files
      <4>1. data[fd[p]] \cup {pos[p] + 1} \in SUBSET Blocks
        BY <2>1, <3>2
      <4>2. QED
        BY <3>1, <3>2, <4>1
    <3>3. CASE fd[p] \notin Files
      <4>1. data' = data
        BY <3>1, <3>3
      <4>2. QED
        BY <4>1
    <3>4. QED
      BY <3>2, <3>3
  <2>3. pos' \in [Procs -> 0..NBlocks]
    BY <1>6, <2>1 DEF Receives
  <2>4. QED
    BY <1>6, <2>2, <2>3 DEF Receives
<1>7. ASSUME NEW p \in Procs, Refused(p) PROVE Base'
  BY <1>7 DEF Refused, Unlinks
<1>8. ASSUME NEW p \in Procs, Received(p) PROVE Base'
  <2>1. /\ pc[p] = "receive"
        /\ fd' = [fd EXCEPT ![p] = NoFile] /\ pos' = [pos EXCEPT ![p] = 0]
        /\ quiet' = [quiet EXCEPT ![p] = Alone(p)]
        /\ UNCHANGED <<tar, data, hasDir, dir, saved, installed, cmd, todo,
                       called, starts, checked, failed>>
    BY <1>8 DEF Received, Closes
  <2>2. pc' = [pc EXCEPT ![p] = "verify"] \/ pc' = [pc EXCEPT ![p] = "got"]
    BY <1>8 DEF Received
  <2>3. Alone(p) \in BOOLEAN
    BY DEF Alone
  <2>4. QED
    BY <2>1, <2>2, <2>3
<1>9. ASSUME NEW p \in Procs, Fetched(p) PROVE Base'
  BY <1>9 DEF Fetched, Closes, Alone
<1>10. ASSUME NEW p \in Procs, Verifies(p) PROVE Base'
  <2>1. pc[p] = "verify" /\ UNCHANGED <<data, hasDir, dir, saved, installed>>
    BY <1>10 DEF Verifies
  <2>2. CASE tar[cmd[p].pkg] # NoFile /\ data[tar[cmd[p].pkg]] = Blocks
    <3>1. /\ pc' = [pc EXCEPT ![p] = "got"]
          /\ checked' = [checked EXCEPT ![p] = TRUE]
          /\ UNCHANGED <<tar, cmd, fd, pos, todo, called, starts, quiet, failed>>
      BY <1>10, <2>2 DEF Verifies
    <3>2. QED
      BY <2>1, <3>1
  <2>3. CASE ~(tar[cmd[p].pkg] # NoFile /\ data[tar[cmd[p].pkg]] = Blocks)
    <3>1. Unlinks(cmd[p].pkg) /\ Ends(p, "over")
      BY <1>10, <2>3 DEF Verifies
    <3>2. QED
      BY <2>1, <3>1 DEF Unlinks
  <2>4. QED
    BY <2>2, <2>3
<1>11. ASSUME NEW p \in Procs, Unpacks(p) PROVE Base'
  <2>1. /\ pc[p] = "got" /\ pc' = [pc EXCEPT ![p] = "tar"]
        /\ fd' = [fd EXCEPT ![p] = tar[cmd[p].pkg]] /\ pos' = [pos EXCEPT ![p] = 0]
        /\ UNCHANGED <<tar, data, saved, installed, cmd, todo, called, starts, quiet,
                       checked>>
    BY <1>11 DEF Unpacks
  <2>2. fd' \in [Procs -> Files \cup {NoFile}]
    <3>1. cmd[p].pkg \in Names
      BY <2>1
    <3> QED BY <2>1, <3>1
  <2>3. CASE cmd[p].kind = "install"
    <3>1. /\ hasDir' = hasDir \cup {p} /\ dir' = [dir EXCEPT ![p] = {}]
          /\ failed' = [failed EXCEPT ![p] = @ \ {"clean"}]
      BY <1>11, <2>3 DEF Unpacks
    <3> QED BY <2>1, <2>2, <2>3, <3>1
  <2>4. CASE cmd[p].kind # "install"
    <3>1. UNCHANGED <<hasDir, dir, failed>>
      BY <1>11, <2>4 DEF Unpacks
    <3> QED BY <2>1, <2>2, <2>4, <3>1
  <2>5. QED
    BY <2>3, <2>4
<1>12. ASSUME NEW p \in Procs, Extracts(p) PROVE Base'
  <2>1. /\ pc[p] = "tar" /\ pos' = [pos EXCEPT ![p] = @ + 1]
        /\ UNCHANGED <<tar, data, hasDir, installed, pc, cmd, fd, todo, called,
                       starts, quiet, checked, failed>>
    BY <1>12 DEF Extracts
  <2>2. pos[p] + 1 \in Blocks
    BY <1>12 DEF Extracts, NextBlock
  <2>3. pos' \in [Procs -> 0..NBlocks]
    BY <2>1, <2>2
  <2>4. CASE cmd[p].kind = "install" /\ p \in hasDir
    <3>1. dir' = [dir EXCEPT ![p] = @ \cup {pos[p] + 1}] /\ UNCHANGED saved
      BY <1>12, <2>4 DEF Extracts
    <3>2. QED
      BY <2>1, <2>2, <2>3, <2>4, <3>1
  <2>5. CASE cmd[p].kind = "install" /\ p \notin hasDir
    <3>1. UNCHANGED <<dir, saved>>
      BY <1>12, <2>5 DEF Extracts
    <3>2. QED
      BY <2>1, <2>3, <3>1
  <2>6. CASE cmd[p].kind # "install"
    <3>1. /\ saved' = [saved EXCEPT ![cmd[p].pkg] = @ \cup {pos[p] + 1}]
          /\ UNCHANGED dir
      BY <1>12, <2>6 DEF Extracts
    <3>2. QED
      BY <2>1, <2>2, <2>3, <3>1
  <2>7. QED
    BY <2>4, <2>5, <2>6
<1>13. ASSUME NEW p \in Procs, Extracted(p) PROVE Base'
  <2>1. /\ pc[p] = "tar"
        /\ fd' = [fd EXCEPT ![p] = NoFile] /\ pos' = [pos EXCEPT ![p] = 0]
        /\ UNCHANGED <<tar, data, hasDir, dir, saved, installed, cmd, todo,
                       called, starts, quiet, checked, failed>>
    BY <1>13 DEF Extracted
  <2>2. CASE cmd[p].kind = "install"
    <3>1. pc' = [pc EXCEPT ![p] = "find"]
      BY <1>13, <2>2 DEF Extracted
    <3>2. QED
      BY <2>1, <3>1
  <2>3. CASE cmd[p].kind # "install"
    <3>1. /\ pc' = [pc EXCEPT ![p] = "drop"]
          /\ p \in hasDir => "clean" \in failed[p]
      BY <1>13, <2>1, <2>3 DEF Extracted
    <3>2. QED
      BY <2>1, <3>1
  <2>4. QED
    BY <2>2, <2>3
<1>14. ASSUME NEW p \in Procs, Drops(p) PROVE Base'
  <2>1. /\ pc[p] = "drop" /\ Ends(p, "over")
        /\ tar' = [tar EXCEPT ![cmd[p].pkg] = NoFile] \/ tar' = tar
        /\ UNCHANGED <<data, hasDir, dir, saved, installed>>
    BY <1>14 DEF Drops, Unlinks
  <2>2. tar' \in [Names -> Files \cup {NoFile}]
    BY <2>1
  <2>3. QED
    BY <2>1, <2>2
<1>15. ASSUME NEW p \in Procs, FindsManifest(p) PROVE Base'
  <2>1. pc[p] = "find" /\ UNCHANGED <<tar, data, saved, installed>>
    BY <1>15 DEF FindsManifest
  <2>2. CASE p \in hasDir /\ Manifest \in dir[p]
    <3>1. Continues(p, "read") /\ UNCHANGED <<hasDir, dir>>
      BY <1>15, <2>2 DEF FindsManifest
    <3>2. QED
      BY <2>1, <3>1
  <2>3. CASE p \in hasDir /\ Manifest \notin dir[p]
    <3>1. RemovesDir(p) /\ Ends(p, "over")
      BY <1>15, <2>3 DEF FindsManifest
    <3>2. QED
      BY <2>1, <3>1 DEF RemovesDir
  <2>4. CASE p \notin hasDir
    <3>1. Ends(p, "threw") /\ UNCHANGED <<hasDir, dir>>
      BY <1>15, <2>4 DEF FindsManifest
    <3>2. QED
      BY <2>1, <3>1
  <2>5. QED
    BY <2>2, <2>3, <2>4
<1>16. ASSUME NEW p \in Procs, ReadsManifest(p) PROVE Base'
  <2>1. pc[p] = "read" /\ UNCHANGED <<tar, data, saved, installed>>
    BY <1>16 DEF ReadsManifest
  <2>2. CASE Continues(p, "list") /\ UNCHANGED <<hasDir, dir>>
    BY <2>1, <2>2
  <2>3. CASE RemovesDir(p) /\ Ends(p, "over")
    BY <2>1, <2>3 DEF RemovesDir
  <2>4. CASE Ends(p, "misread") /\ UNCHANGED <<hasDir, dir>>
    BY <2>1, <2>4
  <2>5. QED
    BY <1>16, <2>2, <2>3, <2>4 DEF ReadsManifest
<1>17. ASSUME NEW p \in Procs, Lists(p) PROVE Base'
  <2>1. /\ pc[p] = "list"
        /\ UNCHANGED <<tar, data, hasDir, dir, saved, installed>>
    BY <1>17 DEF Lists
  <2>2. CASE p \in hasDir
    <3>1. /\ todo' = [todo EXCEPT ![p] = dir[p] \ {Manifest}]
          /\ pc' = [pc EXCEPT ![p] = "copy"]
          /\ UNCHANGED <<cmd, fd, pos, called, starts, quiet, checked, failed>>
      BY <1>17, <2>2 DEF Lists
    <3>2. QED
      BY <2>1, <3>1
  <2>3. CASE p \notin hasDir
    <3>1. Ends(p, "threw")
      BY <1>17, <2>3 DEF Lists
    <3>2. QED
      BY <2>1, <3>1
  <2>4. QED
    BY <2>2, <2>3
<1>18. ASSUME NEW p \in Procs, Copies(p) PROVE Base'
  <2>1. PICK b \in todo[p] :
          IF b \in dir[p]
            THEN /\ installed' = [installed EXCEPT ![called[cmd[p].pkg]] = Placed(cmd[p].pkg, b)]
                 /\ todo' = [todo EXCEPT ![p] = @ \ {b}]
                 /\ UNCHANGED <<pc, cmd, fd, pos, past, checked>>
            ELSE Ends(p, "threw") /\ UNCHANGED installed
    BY <1>18 DEF Copies
  <2>2. pc[p] = "copy" /\ UNCHANGED <<tar, data, hasDir, dir, saved>>
    BY <1>18 DEF Copies
  <2>3. CASE b \in dir[p]
    <3>1. b \in Blocks
      BY <2>3
    <3>2. cmd[p].pkg \in Names /\ called[cmd[p].pkg] \in Names
      BY <2>2
    <3>3. installed[called[cmd[p].pkg]] \in SUBSET (Names \X Blocks)
      BY <3>2
    <3>4. Placed(cmd[p].pkg, b) \in SUBSET (Names \X Blocks)
      BY <3>1, <3>2, <3>3 DEF Placed
    <3>5. installed' \in [Names -> SUBSET (Names \X Blocks)]
      <4>1. installed' = [installed EXCEPT ![called[cmd[p].pkg]] = Placed(cmd[p].pkg, b)]
        BY <2>1, <2>3
      <4> QED BY <3>4, <4>1
    <3>6. /\ todo' = [todo EXCEPT ![p] = @ \ {b}]
          /\ UNCHANGED <<tar, data, hasDir, dir, saved, pc, cmd, fd, pos, called,
                         starts, quiet, checked, failed>>
      BY <2>1, <2>2, <2>3
    <3>7. TypeOK'
      BY <3>5, <3>6
    <3>8. CmdInv' /\ DirInv'
      BY <2>2, <3>6
    <3>9. QED
      BY <3>7, <3>8
  <2>4. CASE b \notin dir[p]
    <3>1. Ends(p, "threw") /\ UNCHANGED installed
      BY <2>1, <2>4
    <3>2. QED
      BY <2>2, <3>1
  <2>5. QED
    BY <2>3, <2>4
<1>19. ASSUME NEW p \in Procs, Registers(p) PROVE Base'
  BY <1>19 DEF Registers
<1>20. ASSUME NEW p \in Procs, Leaves(p) PROVE Base'
  BY <1>20 DEF Leaves, RemovesDir
<1>21. ASSUME NEW p \in Procs, Killed(p) PROVE Base'
  BY <1>21 DEF Killed
<1>22. ASSUME NEW p \in Procs, CleanFails(p) PROVE Base'
  <2>1. /\ pc[p] = "clean" /\ todo' = [todo EXCEPT ![p] = {}]
        /\ failed' = [failed EXCEPT ![p] = @ \cup {"clean"}]
        /\ UNCHANGED <<tar, data, hasDir, dir, saved, installed, pc, cmd, fd, pos,
                       called, starts, quiet, checked>>
    BY <1>22 DEF CleanFails
  <2> QED BY <2>1
<1>23. ASSUME NEW p \in Procs, CannotOpen(p) \/ CannotUnpack(p) PROVE Base'
  <2>1. /\ Ends(p, "over") /\ pc[p] \in {"open", "got"}
        /\ UNCHANGED <<tar, data, hasDir, dir, saved, installed>>
    BY <1>23 DEF CannotOpen, CannotUnpack
  <2> QED BY <2>1
<1>24. ASSUME NEW p \in Procs, TarSkips(p) PROVE Base'
  BY <1>24 DEF TarSkips, NextBlock
<1>25. ASSUME NEW p \in Procs, DiskThrows(p) PROVE Base'
  <2>1. /\ pc' = [pc EXCEPT ![p] = "threw"]
        /\ cmd' = [cmd EXCEPT ![p] = NoCommand] /\ fd' = [fd EXCEPT ![p] = NoFile]
        /\ pos' = [pos EXCEPT ![p] = 0] /\ todo' = [todo EXCEPT ![p] = {}]
        /\ checked' = [checked EXCEPT ![p] = FALSE]
        /\ failed' = [failed EXCEPT ![p] = @ \cup {"disk"}]
        /\ UNCHANGED <<tar, data, saved, called, starts, quiet>>
    BY <1>25 DEF DiskThrows
  <2>2. PICK D \in SUBSET dir[p] : dir' = [dir EXCEPT ![p] = D]
    <3>1. CASE pc[p] \in {"got", "find", "read", "leave"}
      BY <1>25, <3>1 DEF DiskThrows
    <3>2. CASE pc[p] \notin {"got", "find", "read", "leave"}
      <4>1. dir' = [dir EXCEPT ![p] = dir[p]]
        BY <1>25, <3>2 DEF DiskThrows
      <4> QED BY <4>1
    <3> QED BY <3>1, <3>2
  <2>3. /\ hasDir' = hasDir \/ hasDir' = hasDir \cup {p}
        /\ installed' \in [Names -> SUBSET (Names \X Blocks)]
    <3>1. CASE UNCHANGED <<hasDir, installed>>
      BY <3>1
    <3>2. CASE hasDir' = hasDir \cup {p} /\ UNCHANGED installed
      BY <3>2
    <3>3. ASSUME NEW b \in todo[p], UNCHANGED hasDir, pc[p] = "copy",
                 installed' = [installed EXCEPT ![called[cmd[p].pkg]] =
                                 {f \in @ : f[2] # b}]
          PROVE  /\ hasDir' = hasDir
                 /\ installed' \in [Names -> SUBSET (Names \X Blocks)]
      <4>1. called[cmd[p].pkg] \in Names
        BY <3>3
      <4>2. {f \in installed[called[cmd[p].pkg]] : f[2] # b} \in SUBSET (Names \X Blocks)
        BY <4>1
      <4> QED BY <3>3, <4>1, <4>2
    <3> QED BY <1>25, <3>1, <3>2, <3>3 DEF DiskThrows
  <2>4. TypeOK'
    <3>1. dir' \in [Procs -> SUBSET Blocks]
      <4>1. D \in SUBSET Blocks
        BY <2>2
      <4> QED BY <2>2, <4>1
    <3>2. hasDir' \subseteq Procs
      BY <2>3
    <3>3. ASSUME NEW q \in Procs, dir'[q] # {} PROVE q \in hasDir'
      <4>1. dir[q] # {}
        BY <2>2, <3>3
      <4> QED BY <2>3, <4>1
    <3>4. failed' \in [Procs -> SUBSET {"clean", "tar", "disk"}]
      BY <2>1
    <3> QED BY <2>1, <2>3, <3>1, <3>2, <3>3, <3>4
  <2>5. CmdInv' /\ DirInv'
    BY <2>1, <2>2, <2>3
  <2> QED BY <2>4, <2>5
<1>26. CASE UNCHANGED vars
  BY <1>26 DEF vars
<1>27. QED
  BY <1>1, <1>2, <1>3, <1>4, <1>5, <1>6, <1>7, <1>8, <1>9, <1>10, <1>11, <1>12,
     <1>13, <1>14, <1>15, <1>16, <1>17, <1>18, <1>19, <1>20, <1>21, <1>22, <1>23,
     <1>24, <1>25, <1>26
  DEF Next, Step

(* A process that ends leaves the quiet ones alone. *)
LEMMA QuitsQuiet ==
  ASSUME Base, QuietInv, NEW p \in Procs, NEW how \in Ended, Quits(p, how),
         UNCHANGED <<called, quiet>>,
         \A q \in Procs \ {p} : /\ failed'[q] = failed[q] /\ dir'[q] = dir[q]
                                 /\ (q \in hasDir') = (q \in hasDir),
         how = "threw" /\ quiet[p] => "disk" \in failed'[p]
  PROVE  QuietInv'
<1> USE DEF Base, TypeOK, QuietInv, Unpacked, Ended
<1> SUFFICES ASSUME NEW r \in Procs, quiet'[r]
             PROVE  /\ \A q \in Procs : pc'[q] # "clean"
                    /\ \A q \in Procs \ {r} :
                         {pc'[r], pc'[q]} \cap Ended = {} => Apart(cmd[r].pkg, cmd[q].pkg)'
                    /\ Unpacked(r)' => r \in hasDir'
                    /\ pc'[r] = "copy" => todo'[r] \subseteq dir'[r]
                    /\ pc'[r] = "threw" => "disk" \in failed'[r]
  OBVIOUS
<1>1. /\ pc' = [pc EXCEPT ![p] = how]
      /\ cmd' = [cmd EXCEPT ![p] = NoCommand]
      /\ todo' = [todo EXCEPT ![p] = {}]
      /\ quiet' = quiet /\ called' = called
  BY DEF Quits, Goto
<1>2. /\ \A q \in Procs : pc'[q] = IF q = p THEN how ELSE pc[q]
      /\ \A q \in Procs : q # p => cmd'[q] = cmd[q] /\ todo'[q] = todo[q]
  BY <1>1
<1>3. \A q \in Procs : pc'[q] # "clean"
  BY <1>1, <1>2
<1>4. ASSUME NEW q \in Procs \ {r}, {pc'[r], pc'[q]} \cap Ended = {}
      PROVE  Apart(cmd[r].pkg, cmd[q].pkg)'
  <2>1. r # p /\ q # p
    BY <1>2, <1>4
  <2>2. Apart(cmd[r].pkg, cmd[q].pkg)
    BY <1>1, <1>2, <1>4, <2>1
  <2> QED BY <1>1, <1>2, <2>1, <2>2 DEF Apart
<1>5. Unpacked(r)' => r \in hasDir'
  BY <1>1, <1>2
<1>6. pc'[r] = "copy" => todo'[r] \subseteq dir'[r]
  BY <1>1, <1>2
<1>7. pc'[r] = "threw" => "disk" \in failed'[r]
  <2>1. CASE r = p
    BY <1>1, <1>2, <2>1
  <2>2. CASE r # p
    <3>1. failed'[r] = failed[r] /\ pc'[r] = pc[r] /\ quiet[r]
      BY <1>1, <1>2, <2>2
    <3>2. pc[r] = "threw" => "disk" \in failed[r]
      BY <3>1
    <3> QED BY <3>1, <3>2
  <2> QED BY <2>1, <2>2
<1>8. QED
  BY <1>3, <1>4, <1>5, <1>6, <1>7 DEF Apart

LEMMA EndsQuiet ==
  ASSUME Base, QuietInv, NEW p \in Procs, NEW how \in Ended, Ends(p, how),
         how = "threw" => ~quiet[p],
         UNCHANGED <<hasDir, dir>> \/ RemovesDir(p)
  PROVE  QuietInv'
BY QuitsQuiet DEF Ends, past, RemovesDir, Base, TypeOK

(* So does one whose download ends, and it is quiet itself if it is alone. *)
LEMMA ClosesQuiet ==
  ASSUME Base, QuietInv, NEW p \in Procs, NEW l \in {"verify", "got"},
         pc[p] = "receive", Goto(p, l), Closes(p)
  PROVE  QuietInv'
<1> USE DEF Base, TypeOK, CmdInv, QuietInv, Unpacked, Ended, Apart
<1> SUFFICES ASSUME NEW r \in Procs, quiet'[r]
             PROVE  /\ \A q \in Procs : pc'[q] # "clean"
                    /\ \A q \in Procs \ {r} :
                         {pc'[r], pc'[q]} \cap Ended = {} => Apart(cmd[r].pkg, cmd[q].pkg)'
                    /\ Unpacked(r)' => r \in hasDir'
                    /\ pc'[r] = "copy" => todo'[r] \subseteq dir'[r]
                    /\ pc'[r] = "threw" => "disk" \in failed'[r]
  OBVIOUS
<1>1. /\ \A q \in Procs : pc'[q] = IF q = p THEN l ELSE pc[q]
      /\ \A q \in Procs \ {p} : quiet'[q] = quiet[q]
      /\ UNCHANGED <<hasDir, dir, cmd, todo, called, failed>>
  BY DEF Goto, Closes, cache
<1>2. CASE r = p
  <2>1. Alone(p)
    BY <1>2 DEF Closes
  <2>2. \A q \in Procs \ {p} :
          pc[q] # "clean" /\ (pc[q] \notin Ended => Apart(cmd[p].pkg, cmd[q].pkg))
    BY <2>1, NoCommandAssumption DEF Alone, Active
  <2>3. QED
    BY <1>1, <1>2, <2>2
<1>3. CASE r # p
  <2>1. quiet[r]
    BY <1>1, <1>3
  <2>2. \A q \in Procs : pc'[q] # "clean"
    BY <1>1, <2>1
  <2>3. \A q \in Procs \ {r} :
          {pc'[r], pc'[q]} \cap Ended = {} => Apart(cmd[r].pkg, cmd[q].pkg)'
    BY <1>1, <1>3, <2>1
  <2>4. QED
    BY <1>1, <1>3, <2>1, <2>2, <2>3
<1>4. QED
  BY <1>2, <1>3

(* Every step leaves the quiet processes what they have. *)
LEMMA StepQuiet == Base /\ QuietInv /\ [Next]_vars => QuietInv'
<1> SUFFICES ASSUME Base, QuietInv, [Next]_vars PROVE QuietInv'
  OBVIOUS
<1> USE BlocksAssumption, FilesAssumption, NoCommandAssumption
<1> USE DEF Base, TypeOK, CmdInv, QuietInv, Ended, Blocks, Goto,
            Continues, Ends, Quits, Fails, cache, result, local, past, Unpacked,
            Apart
<1>1. ASSUME NEW p \in Procs, NEW k \in Kinds, NEW n \in Names, Starts(p, k, n)
      PROVE  QuietInv'
  BY <1>1 DEF Starts, Active
<1>2. ASSUME NEW p \in Procs, CleansTar(p) PROVE QuietInv'
  BY <1>2 DEF CleansTar, Unlinks
<1>3. ASSUME NEW p \in Procs, CleansDir(p) PROVE QuietInv'
  BY <1>3 DEF CleansDir
<1>4. ASSUME NEW p \in Procs, Finds(p) PROVE QuietInv'
  BY <1>4 DEF Finds
<1>5. ASSUME NEW p \in Procs, Opens(p) PROVE QuietInv'
  BY <1>5 DEF Opens
<1>6. ASSUME NEW p \in Procs, Receives(p) PROVE QuietInv'
  BY <1>6 DEF Receives
<1>7. ASSUME NEW p \in Procs, Refused(p) PROVE QuietInv'
  BY <1>7, EndsQuiet DEF Refused
<1>8. ASSUME NEW p \in Procs, Received(p) PROVE QuietInv'
  BY <1>8, ClosesQuiet DEF Received
<1>9. ASSUME NEW p \in Procs, Fetched(p) PROVE QuietInv'
  BY <1>9, ClosesQuiet DEF Fetched
<1>10. ASSUME NEW p \in Procs, Verifies(p) PROVE QuietInv'
  <2>1. CASE tar[cmd[p].pkg] # NoFile /\ data[tar[cmd[p].pkg]] = Blocks
    <3>1. /\ pc[p] = "verify" /\ pc' = [pc EXCEPT ![p] = "got"]
          /\ UNCHANGED <<hasDir, dir, cmd, todo, called, quiet, failed>>
      BY <1>10, <2>1 DEF Verifies
    <3>2. QED
      BY <3>1
  <2>2. CASE ~(tar[cmd[p].pkg] # NoFile /\ data[tar[cmd[p].pkg]] = Blocks)
    <3>1. Ends(p, "over") /\ UNCHANGED <<hasDir, dir>>
      BY <1>10, <2>2 DEF Verifies
    <3>2. QED
      BY <3>1, EndsQuiet
  <2>3. QED
    BY <2>1, <2>2
<1>11. ASSUME NEW p \in Procs, Unpacks(p) PROVE QuietInv'
  BY <1>11 DEF Unpacks
<1>12. ASSUME NEW p \in Procs, Extracts(p) PROVE QuietInv'
  BY <1>12 DEF Extracts, NextBlock
<1>13. ASSUME NEW p \in Procs, Extracted(p) PROVE QuietInv'
  BY <1>13 DEF Extracted, NextBlock
<1>14. ASSUME NEW p \in Procs, Drops(p) PROVE QuietInv'
  BY <1>14, EndsQuiet DEF Drops
<1>15. ASSUME NEW p \in Procs, FindsManifest(p) PROVE QuietInv'
  <2>1. CASE pc[p] = "find" /\ p \in hasDir /\ Manifest \in dir[p]
    <3>1. /\ pc' = [pc EXCEPT ![p] = "read"]
          /\ UNCHANGED <<hasDir, dir, cmd, todo, called, quiet, failed>>
      BY <1>15, <2>1 DEF FindsManifest
    <3>2. QED
      BY <2>1, <3>1
  <2>2. CASE p \in hasDir /\ Manifest \notin dir[p]
    <3>1. RemovesDir(p) /\ Ends(p, "over")
      BY <1>15, <2>2 DEF FindsManifest
    <3>2. QED
      BY <3>1, EndsQuiet
  <2>3. CASE p \notin hasDir
    <3>1. /\ pc[p] = "find" /\ Ends(p, "threw") /\ UNCHANGED <<hasDir, dir>>
      BY <1>15, <2>3 DEF FindsManifest
    <3>2. ~quiet[p]
      BY <2>3, <3>1
    <3>3. QED
      BY <3>1, <3>2, EndsQuiet
  <2>4. QED
    BY <1>15, <2>1, <2>2, <2>3 DEF FindsManifest
<1>16. ASSUME NEW p \in Procs, ReadsManifest(p) PROVE QuietInv'
  <2>1. CASE Continues(p, "list") /\ UNCHANGED <<hasDir, dir>>
    <3>1. /\ pc[p] = "read" /\ pc' = [pc EXCEPT ![p] = "list"]
          /\ UNCHANGED <<hasDir, dir, cmd, todo, called, quiet, failed>>
      BY <1>16, <2>1 DEF ReadsManifest
    <3>2. QED
      BY <3>1
  <2>2. CASE RemovesDir(p) /\ Ends(p, "over")
    BY <2>2, EndsQuiet
  <2>3. CASE Ends(p, "misread") /\ UNCHANGED <<hasDir, dir>>
    BY <2>3, EndsQuiet
  <2>4. QED
    BY <1>16, <2>1, <2>2, <2>3 DEF ReadsManifest
<1>17. ASSUME NEW p \in Procs, Lists(p) PROVE QuietInv'
  <2>1. pc[p] = "list" /\ UNCHANGED <<hasDir, dir>>
    BY <1>17 DEF Lists
  <2>2. CASE p \in hasDir
    <3>1. /\ pc' = [pc EXCEPT ![p] = "copy"]
          /\ todo' = [todo EXCEPT ![p] = dir[p] \ {Manifest}]
          /\ UNCHANGED <<cmd, called, quiet, failed>>
      BY <1>17, <2>2 DEF Lists
    <3>2. QED
      BY <2>1, <3>1
  <2>3. CASE p \notin hasDir
    <3>1. Ends(p, "threw") /\ ~quiet[p]
      BY <1>17, <2>1, <2>3 DEF Lists
    <3>2. QED
      BY <2>1, <3>1, EndsQuiet
  <2>4. QED
    BY <2>2, <2>3
<1>18. ASSUME NEW p \in Procs, Copies(p) PROVE QuietInv'
  <2>1. PICK b \in todo[p] :
          IF b \in dir[p]
            THEN /\ installed' = [installed EXCEPT ![called[cmd[p].pkg]] = Placed(cmd[p].pkg, b)]
                 /\ todo' = [todo EXCEPT ![p] = @ \ {b}]
                 /\ UNCHANGED <<pc, cmd, fd, pos, past, checked>>
            ELSE Ends(p, "threw") /\ UNCHANGED installed
    BY <1>18 DEF Copies
  <2>2. pc[p] = "copy" /\ UNCHANGED <<hasDir, dir>>
    BY <1>18 DEF Copies
  <2>3. CASE b \in dir[p]
    <3>1. /\ todo' = [todo EXCEPT ![p] = @ \ {b}]
          /\ UNCHANGED <<pc, cmd, called, quiet, failed>>
      BY <2>1, <2>3
    <3>2. QED
      BY <2>2, <3>1
  <2>4. CASE b \notin dir[p]
    <3>1. Ends(p, "threw") /\ ~quiet[p]
      BY <2>1, <2>2, <2>4
    <3>2. QED
      BY <2>2, <3>1, EndsQuiet
  <2>5. QED
    BY <2>3, <2>4
<1>19. ASSUME NEW p \in Procs, Registers(p) PROVE QuietInv'
  BY <1>19 DEF Registers
<1>20. ASSUME NEW p \in Procs, Leaves(p) PROVE QuietInv'
  BY <1>20, EndsQuiet DEF Leaves
<1>21. ASSUME NEW p \in Procs, Killed(p) PROVE QuietInv'
  BY <1>21, EndsQuiet DEF Killed
<1>22. ASSUME NEW p \in Procs, CleanFails(p) PROVE QuietInv'
  BY <1>22 DEF CleanFails
<1>23. ASSUME NEW p \in Procs, CannotOpen(p) \/ CannotUnpack(p) PROVE QuietInv'
  BY <1>23, EndsQuiet DEF CannotOpen, CannotUnpack
<1>24. ASSUME NEW p \in Procs, TarSkips(p) PROVE QuietInv'
  BY <1>24 DEF TarSkips, NextBlock
<1>25. ASSUME NEW p \in Procs, DiskThrows(p) PROVE QuietInv'
  <2>1. Quits(p, "threw") /\ Fails(p, "disk") /\ UNCHANGED <<called, quiet>>
    BY <1>25 DEF DiskThrows
  <2>2. \A q \in Procs \ {p} : dir'[q] = dir[q] /\ (q \in hasDir' <=> q \in hasDir)
    BY <1>25 DEF DiskThrows
  <2>3. "disk" \in failed'[p] /\ \A q \in Procs \ {p} : failed'[q] = failed[q]
    BY <2>1
  <2> HIDE DEF Quits
  <2> QED BY <2>1, <2>2, <2>3, QuitsQuiet
<1>26. CASE UNCHANGED vars
  BY <1>26 DEF vars
<1>27. QED
  BY <1>1, <1>2, <1>3, <1>4, <1>5, <1>6, <1>7, <1>8, <1>9, <1>10, <1>11, <1>12,
     <1>13, <1>14, <1>15, <1>16, <1>17, <1>18, <1>19, <1>20, <1>21, <1>22, <1>23,
     <1>24, <1>25, <1>26
  DEF Next, Step

(* Names and files stay one to one, whoever opens, removes or writes them. *)
LEMMA StepFile == Base /\ FileInv /\ [Next]_vars => FileInv'
<1> SUFFICES ASSUME Base, FileInv, [Next]_vars PROVE FileInv'
  OBVIOUS
<1> USE BlocksAssumption, FilesAssumption, NoCommandAssumption
<1> USE DEF Base, TypeOK, CmdInv, FileInv, Ended, Blocks, Goto,
            Continues, Ends, Quits, Fails, cache, result, local, past
<1>1. ASSUME NEW p \in Procs, NEW k \in Kinds, NEW n \in Names, Starts(p, k, n)
      PROVE  FileInv'
  BY <1>1 DEF Starts, Active
<1>2. ASSUME NEW p \in Procs, CleansTar(p) PROVE FileInv'
  BY <1>2 DEF CleansTar, Unlinks
<1>3. ASSUME NEW p \in Procs, CleansDir(p) PROVE FileInv'
  BY <1>3 DEF CleansDir
<1>4. ASSUME NEW p \in Procs, Finds(p) PROVE FileInv'
  BY <1>4 DEF Finds
<1>5. ASSUME NEW p \in Procs, Opens(p) PROVE FileInv'
  <2> DEFINE n == cmd[p].pkg
  <2>1. n \in Names
    <3>1. pc[p] = "open"
      BY <1>5 DEF Opens
    <3>2. QED
      BY <3>1 DEF Commands
  <2>2. PICK f \in Files :
          /\ f = tar[n] \/ /\ \A m \in Names : tar[m] # f
                           /\ \A q \in Procs : fd[q] # f
          /\ tar' = [tar EXCEPT ![n] = f]
          /\ fd' = [fd EXCEPT ![p] = f]
    <3>1. CASE tar[n] = NoFile
      BY <1>5, <3>1 DEF Opens
    <3>2. CASE tar[n] # NoFile
      <4>1. tar' = [tar EXCEPT ![n] = tar[n]] /\ fd' = [fd EXCEPT ![p] = tar[n]]
        BY <1>5, <3>2 DEF Opens
      <4>2. tar[n] \in Files
        BY <2>1, <3>2
      <4>3. QED
        BY <4>1, <4>2
    <3>3. QED
      BY <3>1, <3>2
  <2>3. pc' = [pc EXCEPT ![p] = "receive"] /\ UNCHANGED cmd
    BY <1>5 DEF Opens
  <2>4. \A k, m \in Names : tar'[k] # NoFile /\ tar'[k] = tar'[m] => k = m
    BY <2>1, <2>2
  <2>5. ASSUME NEW q \in Procs, pc'[q] = "receive"
        PROVE  fd'[q] \in Files /\ \A m \in Names : tar'[m] = fd'[q] => m = cmd'[q].pkg
    <3>1. CASE q = p
      BY <2>1, <2>2, <2>3, <2>4, <3>1
    <3>2. CASE q # p
      BY <2>1, <2>2, <2>3, <2>5, <3>2
    <3>3. QED
      BY <3>1, <3>2
  <2>6. QED
    BY <2>4, <2>5
<1>6. ASSUME NEW p \in Procs, Receives(p) PROVE FileInv'
  BY <1>6 DEF Receives
<1>7. ASSUME NEW p \in Procs, Refused(p) PROVE FileInv'
  BY <1>7 DEF Refused, Unlinks
<1>8. ASSUME NEW p \in Procs, Received(p) PROVE FileInv'
  BY <1>8 DEF Received, Closes, Alone, Active
<1>9. ASSUME NEW p \in Procs, Fetched(p) PROVE FileInv'
  BY <1>9 DEF Fetched, Closes, Alone, Active
<1>10. ASSUME NEW p \in Procs, Verifies(p) PROVE FileInv'
  <2>1. CASE tar[cmd[p].pkg] # NoFile /\ data[tar[cmd[p].pkg]] = Blocks
    <3>1. /\ pc' = [pc EXCEPT ![p] = "got"] /\ UNCHANGED <<tar, cmd, fd>>
      BY <1>10, <2>1 DEF Verifies
    <3>2. QED
      BY <3>1
  <2>2. CASE ~(tar[cmd[p].pkg] # NoFile /\ data[tar[cmd[p].pkg]] = Blocks)
    <3>1. Unlinks(cmd[p].pkg) /\ Ends(p, "over")
      BY <1>10, <2>2 DEF Verifies
    <3>2. QED
      BY <3>1 DEF Unlinks
  <2>3. QED
    BY <2>1, <2>2
<1>11. ASSUME NEW p \in Procs, Unpacks(p) PROVE FileInv'
  BY <1>11 DEF Unpacks
<1>12. ASSUME NEW p \in Procs, Extracts(p) PROVE FileInv'
  BY <1>12 DEF Extracts, NextBlock
<1>13. ASSUME NEW p \in Procs, Extracted(p) PROVE FileInv'
  BY <1>13 DEF Extracted, NextBlock
<1>14. ASSUME NEW p \in Procs, Drops(p) PROVE FileInv'
  BY <1>14 DEF Drops, Unlinks
<1>15. ASSUME NEW p \in Procs, FindsManifest(p) PROVE FileInv'
  <2>1. CASE Continues(p, "read") /\ UNCHANGED tar
    BY <2>1
  <2>2. CASE UNCHANGED tar /\ (Ends(p, "over") \/ Ends(p, "threw"))
    BY <2>2
  <2> QED BY <1>15, <2>1, <2>2 DEF FindsManifest
<1>16. ASSUME NEW p \in Procs, ReadsManifest(p) PROVE FileInv'
  BY <1>16 DEF ReadsManifest, RemovesDir
<1>17. ASSUME NEW p \in Procs, Lists(p) PROVE FileInv'
  BY <1>17 DEF Lists
<1>18. ASSUME NEW p \in Procs, Copies(p) PROVE FileInv'
  BY <1>18 DEF Copies
<1>19. ASSUME NEW p \in Procs, Registers(p) PROVE FileInv'
  BY <1>19 DEF Registers
<1>20. ASSUME NEW p \in Procs, Leaves(p) PROVE FileInv'
  BY <1>20 DEF Leaves, RemovesDir
<1>21. ASSUME NEW p \in Procs, Killed(p) PROVE FileInv'
  BY <1>21 DEF Killed
<1>22. ASSUME NEW p \in Procs, CleanFails(p) PROVE FileInv'
  BY <1>22 DEF CleanFails
<1>23. ASSUME NEW p \in Procs, CannotOpen(p) \/ CannotUnpack(p) PROVE FileInv'
  BY <1>23 DEF CannotOpen, CannotUnpack
<1>24. ASSUME NEW p \in Procs, TarSkips(p) PROVE FileInv'
  BY <1>24 DEF TarSkips, NextBlock
<1>25. ASSUME NEW p \in Procs, DiskThrows(p) PROVE FileInv'
  BY <1>25 DEF DiskThrows
<1>26. CASE UNCHANGED vars
  BY <1>26 DEF vars
<1>27. QED
  BY <1>1, <1>2, <1>3, <1>4, <1>5, <1>6, <1>7, <1>8, <1>9, <1>10, <1>11, <1>12,
     <1>13, <1>14, <1>15, <1>16, <1>17, <1>18, <1>19, <1>20, <1>21, <1>22, <1>23,
     <1>24, <1>25, <1>26
  DEF Next, Step

(* A set between Blocks and Blocks is Blocks. *)
LEMMA BlocksSqueezed ==
  ASSUME NEW A, NEW B, A = Blocks, A \subseteq B, B \subseteq Blocks
  PROVE  B = Blocks
BY ZenonT(30)

(* What is whole in r stays so when a step of another did no harm. *)
LEMMA KeptWhole ==
  ASSUME Base, Base', NEW r \in Procs, Kept(r),
         checked[r] /\ quiet[r] /\ "tar" \notin failed[r] => Whole(r),
         pc[r] \notin Ended
  PROVE  checked'[r] /\ quiet'[r] /\ "tar" \notin failed'[r] => Whole(r)'
<1> USE DEF Base, TypeOK, CmdInv, Kept, Whole, WholeTar, Commands
<1> SUFFICES ASSUME checked'[r], quiet'[r], "tar" \notin failed'[r] PROVE Whole(r)'
  OBVIOUS
<1> DEFINE n == cmd[r].pkg
<1>1. Whole(r) /\ n \in Names
  OBVIOUS
<1>2. /\ pc'[r] = pc[r] /\ cmd'[r] = cmd[r] /\ fd'[r] = fd[r] /\ pos'[r] = pos[r]
      /\ todo'[r] = todo[r] /\ dir'[r] = dir[r]
  OBVIOUS
<1>3. saved[n] \subseteq saved'[n] /\ Installed(n) \subseteq Installed(n)'
  BY <1>1
<1>4. saved'[n] \subseteq Blocks
  BY <1>1
<1>5. pc[r] \in {"got", "tar"} => WholeTar(r)' /\ tar'[n] = tar[n]
  BY <1>1, <1>2
<1>6. CASE pc[r] = "tar"
  BY <1>1, <1>2, <1>3, <1>5, <1>6
<1>7. CASE pc[r] = "drop"
  <2>1. saved[n] = Blocks
    BY <1>1, <1>7
  <2>2. saved'[n] = Blocks
    <3> HIDE DEF Base, TypeOK, CmdInv, Kept, Whole, WholeTar, Commands, n
    <3>1. QED
      BY <1>3, <1>4, <2>1, BlocksSqueezed
  <2>3. QED
    BY <1>2, <1>7, <2>2
<1>8. CASE pc[r] \notin {"tar", "drop"}
  BY <1>1, <1>2, <1>3, <1>5, <1>8
<1>9. QED
  BY <1>6, <1>7, <1>8

(* No step but a start harms another process while that one is quiet. *)
LEMMA KeepsOthers ==
  ASSUME Base, QuietInv, FileInv, NEW p \in Procs, NEW r \in Procs \ {p},
         Step(p) \/ Killed(p)
  PROVE  Kept(r)
<1> USE DEF Base, TypeOK, CmdInv, QuietInv, FileInv, Kept, WholeTar, Ended, Goto,
            Continues, Ends, Quits, Fails, cache, result, local, past, Commands,
            Installed, Apart
<1> USE FilesAssumption
<1>1. CASE CleansTar(p)
  BY <1>1 DEF CleansTar, Unlinks
<1>2. CASE CleansDir(p)
  BY <1>2 DEF CleansDir
<1>3. CASE Finds(p)
  BY <1>3 DEF Finds
<1>4. CASE Opens(p)
  BY <1>4, SMTT(60) DEF Opens
<1>5. CASE Receives(p)
  BY <1>5 DEF Receives
<1>6. CASE Refused(p)
  BY <1>6 DEF Refused, Unlinks
<1>7. CASE Received(p)
  BY <1>7 DEF Received, Closes
<1>8. CASE Fetched(p)
  BY <1>8 DEF Fetched, Closes
<1>9. CASE Verifies(p)
  BY <1>9 DEF Verifies, Unlinks
<1>10. CASE Unpacks(p)
  BY <1>10 DEF Unpacks
<1>11. CASE Extracts(p)
  BY <1>11, SMTT(60) DEF Extracts, NextBlock
<1>12. CASE Extracted(p)
  BY <1>12 DEF Extracted
<1>13. CASE Drops(p)
  BY <1>13 DEF Drops, Unlinks
<1>14. CASE FindsManifest(p)
  BY <1>14 DEF FindsManifest, RemovesDir
<1>15. CASE ReadsManifest(p)
  BY <1>15 DEF ReadsManifest, RemovesDir
<1>16. CASE Lists(p)
  BY <1>16 DEF Lists
<1>17. CASE Copies(p)
  BY <1>17 DEF Copies
<1>18. CASE Registers(p)
  BY <1>18 DEF Registers
<1>19. CASE Leaves(p)
  BY <1>19 DEF Leaves, RemovesDir
<1>20. CASE Killed(p)
  BY <1>20 DEF Killed
<1>21. CASE CleanFails(p)
  BY <1>21 DEF CleanFails
<1>22. CASE CannotOpen(p) \/ CannotUnpack(p)
  BY <1>22 DEF CannotOpen, CannotUnpack
<1>23. CASE TarSkips(p)
  BY <1>23 DEF TarSkips
<1>24. CASE DiskThrows(p)
  BY <1>24 DEF DiskThrows
<1>25. QED
  BY <1>1, <1>2, <1>3, <1>4, <1>5, <1>6, <1>7, <1>8, <1>9, <1>10, <1>11, <1>12,
     <1>13, <1>14, <1>15, <1>16, <1>17, <1>18, <1>19, <1>20, <1>21, <1>22, <1>23,
     <1>24
  DEF Step

(* A step of p itself takes what is whole on to what is whole. *)
LEMMA KeepsOwn ==
  ASSUME Base, QuietInv, FileInv, WholeInv, NEW p \in Procs, Step(p) \/ Killed(p)
  PROVE  checked'[p] /\ quiet'[p] /\ "tar" \notin failed'[p] => Whole(p)'
<1> USE DEF Base, TypeOK, CmdInv, QuietInv, FileInv, WholeInv, Whole, WholeTar, Ended,
            Goto, Continues, Ends, Quits, Fails, cache, result, local, past, Commands, Blocks
<1> USE FilesAssumption, BlocksAssumption DEF Installed
<1>1. CASE CleansTar(p)
  BY <1>1 DEF CleansTar, Unlinks
<1>2. CASE CleansDir(p)
  BY <1>2 DEF CleansDir
<1>3. CASE Finds(p)
  BY <1>3 DEF Finds
<1>4. CASE Opens(p)
  BY <1>4 DEF Opens
<1>5. CASE Receives(p)
  BY <1>5 DEF Receives
<1>6. CASE Refused(p)
  BY <1>6 DEF Refused, Unlinks
<1>7. CASE Received(p)
  BY <1>7 DEF Received, Closes
<1>8. CASE Fetched(p)
  BY <1>8 DEF Fetched, Closes
<1>9. CASE Verifies(p)
  <2>1. CASE tar[cmd[p].pkg] # NoFile /\ data[tar[cmd[p].pkg]] = Blocks
    <3>1. pc[p] = "verify" /\ pc' = [pc EXCEPT ![p] = "got"] /\ UNCHANGED <<tar, data, cmd>>
      BY <1>9, <2>1 DEF Verifies
    <3>2. cmd[p].pkg \in Names
      BY <3>1
    <3>3. tar[cmd[p].pkg] \in Files
      BY <2>1, <3>2
    <3>4. QED
      BY <2>1, <3>1, <3>3
  <2>2. CASE ~(tar[cmd[p].pkg] # NoFile /\ data[tar[cmd[p].pkg]] = Blocks)
    <3>1. Ends(p, "over")
      BY <1>9, <2>2 DEF Verifies
    <3>2. QED
      BY <3>1
  <2>3. QED
    BY <2>1, <2>2
<1>10. CASE Unpacks(p)
  <2>1. /\ pc[p] = "got" /\ pc' = [pc EXCEPT ![p] = "tar"]
        /\ fd' = [fd EXCEPT ![p] = tar[cmd[p].pkg]]
        /\ pos' = [pos EXCEPT ![p] = 0]
        /\ UNCHANGED <<tar, data, saved, cmd, quiet, checked>>
        /\ "tar" \in failed[p] => "tar" \in failed'[p]
    BY <1>10 DEF Unpacks
  <2>2. QED
    BY <2>1
<1>11. CASE Extracts(p)
  <2> SUFFICES ASSUME checked'[p], quiet'[p], "tar" \notin failed'[p] PROVE Whole(p)'
    OBVIOUS
  <2>1. /\ pc[p] = "tar" /\ pos' = [pos EXCEPT ![p] = @ + 1]
        /\ UNCHANGED <<tar, data, hasDir, pc, cmd, fd, quiet, checked, failed>>
    BY <1>11 DEF Extracts
  <2>2. Whole(p) /\ cmd[p].pkg \in Names
    BY <2>1
  <2>3. 1..pos'[p] = 1..pos[p] \cup {pos[p] + 1}
    BY <2>1
  <2>4. CASE cmd[p].kind = "install"
    <3>1. dir' = [dir EXCEPT ![p] = @ \cup {pos[p] + 1}]
      BY <1>11, <2>1, <2>4 DEF Extracts, Unpacked
    <3>2. QED
      BY <2>1, <2>2, <2>3, <2>4, <3>1
  <2>5. CASE cmd[p].kind # "install"
    <3>1. saved' = [saved EXCEPT ![cmd[p].pkg] = @ \cup {pos[p] + 1}]
      BY <1>11, <2>5 DEF Extracts
    <3>2. QED
      BY <2>1, <2>2, <2>3, <2>5, <3>1
  <2>6. QED
    BY <2>4, <2>5
<1>12. CASE Extracted(p)
  <2> SUFFICES ASSUME checked'[p], quiet'[p], "tar" \notin failed'[p] PROVE Whole(p)'
    OBVIOUS
  <2>1. /\ pc[p] = "tar" /\ ~NextBlock(p)
        /\ pc' = [pc EXCEPT ![p] = IF cmd[p].kind = "install" THEN "find" ELSE "drop"]
        /\ UNCHANGED <<dir, saved, cmd, quiet, checked, failed>>
    BY <1>12 DEF Extracted
  <2>2. Whole(p) /\ cmd[p].pkg \in Names
    BY <2>1
  <2>3. pos[p] + 1 \notin Blocks
    BY <2>1, <2>2 DEF NextBlock
  <2>4. 1..pos[p] = Blocks
    BY <2>3
  <2>5. CASE cmd[p].kind = "install"
    <3>1. dir[p] = Blocks
      BY <2>1, <2>2, <2>4, <2>5
    <3>2. QED
      BY <2>1, <2>5, <3>1
  <2>6. CASE cmd[p].kind # "install"
    <3>1. saved[cmd[p].pkg] = Blocks
      <4>1. 1..pos[p] \subseteq saved[cmd[p].pkg]
        BY <2>1, <2>2, <2>6
      <4>2. saved[cmd[p].pkg] \in SUBSET Blocks
        BY <2>2
      <4>3. QED
        BY <2>4, <4>1, <4>2
    <3>2. QED
      BY <2>1, <2>6, <3>1
  <2>7. QED
    BY <2>5, <2>6
<1>13. CASE Drops(p)
  BY <1>13 DEF Drops, Unlinks
<1>14. CASE FindsManifest(p)
  BY <1>14 DEF FindsManifest, RemovesDir
<1>15. CASE ReadsManifest(p)
  BY <1>15 DEF ReadsManifest, RemovesDir
<1>16. CASE Lists(p)
  <2>1. CASE p \in hasDir
    <3>1. /\ pc[p] = "list" /\ pc' = [pc EXCEPT ![p] = "copy"]
          /\ todo' = [todo EXCEPT ![p] = dir[p] \ {Manifest}]
          /\ UNCHANGED <<installed, called, cmd, quiet, checked, failed>>
      BY <1>16, <2>1 DEF Lists
    <3>2. QED
      BY <3>1
  <2>2. CASE p \notin hasDir
    <3>1. Ends(p, "threw")
      BY <1>16, <2>2 DEF Lists
    <3>2. QED
      BY <3>1
  <2>3. QED
    BY <2>1, <2>2
<1>17. CASE Copies(p)
  <2>1. PICK b \in todo[p] :
          IF b \in dir[p]
            THEN /\ installed' = [installed EXCEPT ![called[cmd[p].pkg]] = Placed(cmd[p].pkg, b)]
                 /\ todo' = [todo EXCEPT ![p] = @ \ {b}]
                 /\ UNCHANGED <<pc, cmd, fd, pos, past, checked>>
            ELSE Ends(p, "threw") /\ UNCHANGED installed
    BY <1>17 DEF Copies
  <2>2. pc[p] = "copy" /\ cmd[p].pkg \in Names
    <3>1. pc[p] = "copy"
      BY <1>17 DEF Copies
    <3>2. QED
      BY <3>1
  <2>3. CASE b \in dir[p]
    <3> DEFINE n == cmd[p].pkg
    <3>1. /\ installed' = [installed EXCEPT ![called[n]] = Placed(n, b)]
          /\ todo' = [todo EXCEPT ![p] = @ \ {b}]
          /\ UNCHANGED <<pc, cmd, called, quiet, checked, failed>>
      BY <2>1, <2>3
    <3>2. called[n] \in Names
      BY <2>2
    <3>3. installed'[called'[n]] = Placed(n, b)
      BY <3>1, <3>2
    <3>4. Installed(n)' = Installed(n) \cup {b}
      BY <2>2, <2>3, <3>1, <3>3 DEF Placed
    <3>5. QED
      BY <2>2, <3>1, <3>4
  <2>4. CASE b \notin dir[p]
    <3>1. Ends(p, "threw")
      BY <2>1, <2>4
    <3>2. QED
      BY <3>1
  <2>5. QED
    BY <2>3, <2>4
<1>18. CASE Registers(p)
  BY <1>18 DEF Registers
<1>19. CASE Leaves(p)
  BY <1>19 DEF Leaves, RemovesDir
<1>20. CASE Killed(p)
  BY <1>20 DEF Killed
<1>21. CASE CleanFails(p)
  BY <1>21 DEF CleanFails
<1>22. CASE CannotOpen(p) \/ CannotUnpack(p)
  BY <1>22 DEF CannotOpen, CannotUnpack
<1>23. CASE TarSkips(p)
  BY <1>23 DEF TarSkips
<1>24. CASE DiskThrows(p)
  BY <1>24 DEF DiskThrows
<1>25. QED
  BY <1>1, <1>2, <1>3, <1>4, <1>5, <1>6, <1>7, <1>8, <1>9, <1>10, <1>11, <1>12,
     <1>13, <1>14, <1>15, <1>16, <1>17, <1>18, <1>19, <1>20, <1>21, <1>22, <1>23,
     <1>24
  DEF Step

(* A process that has compared the checksum is past the comparison. *)
LEMMA KeepsPlace ==
  ASSUME Base, WholeInv, NEW p \in Procs, Step(p) \/ Killed(p), checked'[p]
  PROVE  pc'[p] \in {"got", "tar", "drop", "find", "read", "list", "copy", "leave"}
<1> USE DEF Base, TypeOK, WholeInv, Goto, Continues, Ends, Quits, Fails
<1>1. CASE CleansTar(p)
  BY <1>1 DEF CleansTar
<1>2. CASE CleansDir(p)
  BY <1>2 DEF CleansDir
<1>3. CASE Finds(p)
  BY <1>3 DEF Finds
<1>4. CASE Opens(p)
  BY <1>4 DEF Opens
<1>5. CASE Receives(p)
  BY <1>5 DEF Receives
<1>6. CASE Refused(p)
  BY <1>6 DEF Refused
<1>7. CASE Received(p)
  BY <1>7 DEF Received, Closes
<1>8. CASE Fetched(p)
  BY <1>8 DEF Fetched, Closes
<1>9. CASE Verifies(p)
  BY <1>9 DEF Verifies
<1>10. CASE Unpacks(p)
  BY <1>10 DEF Unpacks
<1>11. CASE Extracts(p)
  BY <1>11 DEF Extracts
<1>12. CASE Extracted(p)
  BY <1>12 DEF Extracted
<1>13. CASE Drops(p)
  BY <1>13 DEF Drops
<1>14. CASE FindsManifest(p)
  BY <1>14 DEF FindsManifest
<1>15. CASE ReadsManifest(p)
  BY <1>15 DEF ReadsManifest
<1>16. CASE Lists(p)
  BY <1>16 DEF Lists
<1>17. CASE Copies(p)
  BY <1>17 DEF Copies
<1>18. CASE Registers(p)
  BY <1>18 DEF Registers
<1>19. CASE Leaves(p)
  BY <1>19 DEF Leaves
<1>20. CASE Killed(p)
  BY <1>20 DEF Killed
<1>21. CASE CleanFails(p)
  BY <1>21 DEF CleanFails
<1>22. CASE CannotOpen(p) \/ CannotUnpack(p)
  BY <1>22 DEF CannotOpen, CannotUnpack
<1>23. CASE TarSkips(p)
  BY <1>23 DEF TarSkips
<1>24. CASE DiskThrows(p)
  BY <1>24 DEF DiskThrows
<1>25. QED
  BY <1>1, <1>2, <1>3, <1>4, <1>5, <1>6, <1>7, <1>8, <1>9, <1>10, <1>11, <1>12,
     <1>13, <1>14, <1>15, <1>16, <1>17, <1>18, <1>19, <1>20, <1>21, <1>22, <1>23,
     <1>24
  DEF Step

(* Both together: every step keeps WholeInv. *)
LEMMA StepWhole == Inv /\ Base' /\ [Next]_vars => WholeInv'
<1> SUFFICES ASSUME Inv, Base', [Next]_vars PROVE WholeInv'
  OBVIOUS
<1>1. Base /\ QuietInv /\ FileInv /\ WholeInv
  BY DEF Inv, Base
<1>2. ASSUME NEW p \in Procs, Step(p) \/ Killed(p) PROVE WholeInv'
  <2> SUFFICES ASSUME NEW r \in Procs, checked'[r]
               PROVE  /\ pc'[r] \in {"got", "tar", "drop", "find", "read", "list",
                                     "copy", "leave"}
                      /\ quiet'[r] /\ "tar" \notin failed'[r] => Whole(r)'
    BY DEF WholeInv
  <2>1. CASE r = p
    BY <1>1, <1>2, <2>1, KeepsPlace, KeepsOwn
  <2>2. CASE r # p
    <3>1. Kept(r)
      BY <1>1, <1>2, <2>2, KeepsOthers
    <3>2. /\ pc[r] \in {"got", "tar", "drop", "find", "read", "list", "copy", "leave"}
          /\ quiet[r] /\ "tar" \notin failed[r] => Whole(r)
      BY <1>1, <3>1 DEF Kept, WholeInv
    <3>3. checked'[r] /\ quiet'[r] /\ "tar" \notin failed'[r] => Whole(r)'
      BY <1>1, <3>1, <3>2, KeptWhole DEF Ended
    <3>4. QED
      BY <3>1, <3>2, <3>3 DEF Kept
  <2>3. QED
    BY <2>1, <2>2
<1>3. ASSUME NEW p \in Procs, NEW k \in Kinds, NEW n \in Names, Starts(p, k, n)
      PROVE  WholeInv'
  <2>1. pc[p] \in Ended
    BY <1>1, <1>3, NoCommandAssumption DEF Starts, Active, Base, CmdInv
  <2>2. /\ pc' = [pc EXCEPT ![p] = "clean"]
        /\ quiet' = [q \in Procs |-> FALSE]
        /\ checked' = checked
    BY <1>3 DEF Starts, Goto
  <2>3. QED
    BY <1>1, <2>1, <2>2 DEF WholeInv, Base, TypeOK, Ended
<1>4. CASE UNCHANGED vars
  BY <1>1, <1>4 DEF vars, cache, result, local, past, WholeInv, Whole, WholeTar, Installed
<1>5. QED
  BY <1>2, <1>3, <1>4 DEF Next

(* The whole invariant holds at first and is kept by every step. *)
LEMMA InitInv == Init => Inv
<1> SUFFICES ASSUME Init PROVE Inv
  OBVIOUS
<1>1. Base
  BY InitBase
<1>2. QuietInv /\ WholeInv
  BY DEF Init, QuietInv, WholeInv
<1>3. FileInv
  BY DEF Init, FileInv
<1>4. QED
  BY <1>1, <1>2, <1>3 DEF Inv, Base

(* Every step keeps all its parts. *)
LEMMA StepInv == Inv /\ [Next]_vars => Inv'
<1> SUFFICES ASSUME Inv, [Next]_vars PROVE Inv'
  OBVIOUS
<1>1. Base /\ QuietInv /\ FileInv
  BY DEF Inv, Base
<1>2. Base' /\ QuietInv' /\ FileInv'
  BY <1>1, StepBase, StepQuiet, StepFile
<1>3. WholeInv'
  BY <1>2, StepWhole
<1>4. QED
  BY <1>2, <1>3 DEF Inv, Base

(* The inductive invariant holds in every behaviour. *)
THEOREM Invariance == Spec => []Inv
  BY InitInv, StepInv, PTL DEF Spec

(* The cache directory, the processes and the files keep their types, for  *)
(* any packages and processes.                                             *)
THEOREM InstallTypeCorrect == Spec => []TypeOK
<1>1. Inv => TypeOK
  BY DEF Inv
<1>2. QED
  BY <1>1, Invariance, PTL

(* Every return of install_tar has removed the extraction directory. *)
THEOREM NoDirectoryLeft == Spec => []LeavesNoDirectory
<1>1. Inv => LeavesNoDirectory
  BY DEF Inv, DirInv, LeavesNoDirectory
<1>2. QED
  BY <1>1, Invariance, PTL

(* Only another process that interferes, or a disk that refuses something, *)
(* makes std::filesystem throw.                                            *)
THEOREM NoExceptionAlone == Spec => []ThrowsOnlyWhenDisturbed
<1>1. Inv => ThrowsOnlyWhenDisturbed
  BY DEF Inv, QuietInv, ThrowsOnlyWhenDisturbed
<1>2. QED
  BY <1>1, Invariance, PTL

(* A checked and undisturbed installation for which tar did its work is    *)
(* complete when it is registered, whatever else the disk refused.         *)
THEOREM InstalledWhole == Spec => []CheckedInstallIsComplete
<1>1. Inv => CheckedInstallIsComplete
  BY DEF Inv, WholeInv, Whole, CheckedInstallIsComplete
<1>2. QED
  BY <1>1, Invariance, PTL

(* So is what a checked and undisturbed download has extracted, if tar did *)
(* its work.                                                               *)
THEOREM DownloadedWhole == Spec => []CheckedDownloadIsComplete
<1>1. Inv => CheckedDownloadIsComplete
  BY DEF Inv, WholeInv, Whole, CheckedDownloadIsComplete
<1>2. QED
  BY <1>1, Invariance, PTL

-----------------------------------------------------------------------------
(* Versions: the order that constraints rest on is a strict total one, and *)
(* the loop of compare_versions computes it.                               *)

LEMMA PartType == ASSUME NEW v \in Version, NEW i \in Nat PROVE Part(v, i) \in Int
  BY DEF Version, Part

LEMMA Indices == ASSUME NEW v \in Version PROVE \A i \in DOMAIN v : i \in Nat \ {0}
  BY DEF Version

(* A set of numbers has a least one. *)
LEMMA Least ==
  ASSUME NEW T \in SUBSET Nat, T # {} PROVE \E x \in T : \A y \in T : ~(y < x)
<1>1. PICK x \in T : \A y \in T : ~(<<y, x>> \in OpToRel(<, Nat))
  BY NatLessThanWellFounded, WFMin
<1> QED BY <1>1 DEF OpToRel

(* Where two versions first differ, if they do. *)
LEMMA FirstDifference ==
  ASSUME NEW a \in Version, NEW b \in Version, ~Same(a, b)
  PROVE  \E i \in DOMAIN a \cup DOMAIN b :
           Part(a, i) # Part(b, i) /\ \A j \in 1..(i - 1) : Part(a, j) = Part(b, j)
<1> DEFINE D == {i \in DOMAIN a \cup DOMAIN b : Part(a, i) # Part(b, i)}
<1>1. D \subseteq Nat
  BY Indices
<1>2. D \subseteq Nat /\ D # {}
  BY <1>1 DEF Same
<1>3. PICK i \in D : \A j \in D : ~(j < i)
  BY <1>2, Least
<1>4. ASSUME NEW j \in 1..(i - 1) PROVE Part(a, j) = Part(b, j)
  <2>1. j \notin D /\ j \in Nat /\ i \in Nat
    BY <1>2, <1>3
  <2>2. CASE j \in DOMAIN a \cup DOMAIN b
    BY <2>1, <2>2
  <2>3. CASE j \notin DOMAIN a \cup DOMAIN b
    BY <2>3 DEF Part
  <2> QED BY <2>2, <2>3
<1> QED BY <1>4

(* The order the constraints rest on is a strict one: no version is before *)
(* itself, nor both before and after another.                              *)
THEOREM Asymmetric ==
  ASSUME NEW a \in Version, NEW b \in Version, Before(a, b)
  PROVE  ~Before(b, a) /\ ~Same(a, b)
<1>1. PICK i \in DOMAIN a \cup DOMAIN b : FirstLess(a, b, i)
  BY DEF Before
<1>2. i \in Nat \ {0} /\ \A j \in DOMAIN a \cup DOMAIN b : j \in Nat \ {0}
  BY Indices
<1>3. Part(a, i) \in Int /\ Part(b, i) \in Int
  BY <1>2, PartType
<1>4. ~Same(a, b)
  BY <1>1, <1>3 DEF FirstLess, Same
<1>5. ASSUME NEW k \in DOMAIN a \cup DOMAIN b, FirstLess(b, a, k) PROVE FALSE
  <2>1. k \in Nat \ {0} /\ Part(a, k) \in Int /\ Part(b, k) \in Int
    BY <1>2, PartType
  <2>2. CASE k < i
    <3>1. k \in 1..(i - 1)
      BY <1>2, <2>1, <2>2
    <3> QED BY <3>1, <1>1, <1>5, <2>1 DEF FirstLess
  <2>3. CASE i < k
    <3>1. i \in 1..(k - 1)
      BY <1>2, <2>1, <2>3
    <3> QED BY <3>1, <1>1, <1>3, <1>5 DEF FirstLess
  <2>4. CASE i = k
    BY <2>4, <1>1, <1>3, <1>5 DEF FirstLess
  <2> QED BY <1>2, <2>1, <2>2, <2>3, <2>4
<1> QED BY <1>4, <1>5 DEF Before

(* Of two versions one is before the other, or they are the same. *)
LEMMA Total ==
  ASSUME NEW a \in Version, NEW b \in Version PROVE Same(a, b) \/ Before(a, b) \/ Before(b, a)
<1> SUFFICES ASSUME ~Same(a, b) PROVE Before(a, b) \/ Before(b, a)
  OBVIOUS
<1>1. PICK i \in DOMAIN a \cup DOMAIN b :
         Part(a, i) # Part(b, i) /\ \A j \in 1..(i - 1) : Part(a, j) = Part(b, j)
  BY FirstDifference
<1>2. i \in Nat
  BY Indices
<1>3. Part(a, i) \in Int /\ Part(b, i) \in Int
  BY <1>2, PartType
<1>4. FirstLess(a, b, i) \/ FirstLess(b, a, i)
  BY <1>1, <1>3 DEF FirstLess
<1> QED BY <1>4 DEF Before

-----------------------------------------------------------------------------
(* What the loop of compare_versions computes.                             *)

Longer(a, b) == IF Len(a) > Len(b) THEN Len(a) ELSE Len(b)

(* The loop from part i on, f standing for itself.                         *)
Loop(a, b, f) ==
  [i \in 1..(Longer(a, b) + 1) |->
     IF i > Longer(a, b) THEN 0
     ELSE IF Part(a, i) < Part(b, i) THEN -1
     ELSE IF Part(a, i) > Part(b, i) THEN 1
     ELSE f[i + 1]]

LEMMA LoopIs ==
  ASSUME NEW a, NEW b
  PROVE  CompareVersions(a, b) = (CHOOSE f : f = Loop(a, b, f))[1]
BY DEF CompareVersions, Loop, Longer

(* Its value at i: the first part from there on that differs decides.      *)
LessAt(a, b, i, k) == Part(a, k) < Part(b, k) /\ \A j \in i..(k - 1) : Part(a, j) = Part(b, j)
Value(a, b, i) ==
  IF \E k \in i..Longer(a, b) : LessAt(a, b, i, k) THEN -1
  ELSE IF \E k \in i..Longer(a, b) : LessAt(b, a, i, k) THEN 1
  ELSE 0

LEMMA LongerType ==
  ASSUME NEW a \in Version, NEW b \in Version
  PROVE  /\ Longer(a, b) \in Nat
         /\ DOMAIN a \cup DOMAIN b = 1..Longer(a, b)
<1>1. Len(a) \in Nat /\ Len(b) \in Nat /\ DOMAIN a = 1..Len(a) /\ DOMAIN b = 1..Len(b)
  BY DEF Version
<1> QED BY <1>1 DEF Longer

(* Equal parts at i: the next ones decide. *)
LEMMA LessNext ==
  ASSUME NEW a \in Version, NEW b \in Version, NEW n \in Nat, NEW i \in 1..n,
         Part(a, i) = Part(b, i)
  PROVE  (\E k \in i..n : LessAt(a, b, i, k)) <=> (\E k \in (i + 1)..n : LessAt(a, b, i + 1, k))
<1>1. ASSUME NEW k \in i..n, LessAt(a, b, i, k)
      PROVE  k \in (i + 1)..n /\ LessAt(a, b, i + 1, k)
  <2>1. Part(a, k) \in Int /\ Part(b, k) \in Int
    BY PartType
  <2>2. k # i
    BY <1>1, <2>1 DEF LessAt
  <2>3. \A j \in (i + 1)..(k - 1) : j \in i..(k - 1)
    OBVIOUS
  <2> QED BY <1>1, <2>2, <2>3 DEF LessAt
<1>2. ASSUME NEW k \in (i + 1)..n, LessAt(a, b, i + 1, k)
      PROVE  k \in i..n /\ LessAt(a, b, i, k)
  <2>1. \A j \in i..(k - 1) : j = i \/ j \in (i + 1)..(k - 1)
    OBVIOUS
  <2> QED BY <1>2, <2>1 DEF LessAt
<1> QED BY <1>1, <1>2

LEMMA ValueStep ==
  ASSUME NEW a \in Version, NEW b \in Version, NEW i \in 1..(Longer(a, b) + 1)
  PROVE  Value(a, b, i) = IF i > Longer(a, b) THEN 0
                          ELSE IF Part(a, i) < Part(b, i) THEN -1
                          ELSE IF Part(a, i) > Part(b, i) THEN 1
                          ELSE Value(a, b, i + 1)
<1> DEFINE n == Longer(a, b)
<1>1. n \in Nat /\ i \in Nat /\ Part(a, i) \in Int /\ Part(b, i) \in Int
  BY LongerType, PartType
<1>2. CASE i > n
  <2>1. i..n = {}
    BY <1>1, <1>2
  <2> QED BY <1>2, <2>1 DEF Value
<1>3. CASE ~(i > n) /\ Part(a, i) < Part(b, i)
  <2>1. i \in i..n /\ LessAt(a, b, i, i)
    BY <1>1, <1>3 DEF LessAt
  <2> QED BY <1>3, <2>1 DEF Value
<1>4. CASE ~(i > n) /\ Part(a, i) > Part(b, i)
  <2>1. i \in i..n /\ LessAt(b, a, i, i)
    BY <1>1, <1>4 DEF LessAt
  <2>2. ASSUME NEW k \in i..n, LessAt(a, b, i, k) PROVE FALSE
    <3>1. CASE k = i
      BY <1>1, <1>4, <2>2, <3>1 DEF LessAt
    <3>2. CASE k # i
      <4>1. i \in i..(k - 1)
        BY <1>1, <3>2
      <4> QED BY <1>1, <1>4, <2>2, <4>1 DEF LessAt
    <3> QED BY <3>1, <3>2
  <2>3. ~(Part(a, i) < Part(b, i))
    BY <1>1, <1>4
  <2> QED BY <1>4, <2>1, <2>2, <2>3 DEF Value
<1>5. CASE ~(i > n) /\ Part(a, i) = Part(b, i)
  <2>1. i \in 1..n
    BY <1>1, <1>5
  <2>2. /\ (\E k \in i..n : LessAt(a, b, i, k)) <=> (\E k \in (i + 1)..n : LessAt(a, b, i + 1, k))
        /\ (\E k \in i..n : LessAt(b, a, i, k)) <=> (\E k \in (i + 1)..n : LessAt(b, a, i + 1, k))
    BY <1>1, <1>5, <2>1, LessNext
  <2>3. Value(a, b, i) = Value(a, b, i + 1)
    BY <2>2 DEF Value
  <2>4. ~(Part(a, i) < Part(b, i)) /\ ~(Part(a, i) > Part(b, i))
    BY <1>1, <1>5
  <2> QED BY <1>5, <2>3, <2>4
<1> QED BY <1>1, <1>2, <1>3, <1>4, <1>5

(* The equation of the loop has a solution, and no other: two solutions    *)
(* agree from the last part backwards.                                     *)
LEMMA LoopValue ==
  ASSUME NEW a \in Version, NEW b \in Version
  PROVE  CompareVersions(a, b) = Value(a, b, 1)
<1> DEFINE n == Longer(a, b)
           g == [i \in 1..(n + 1) |-> Value(a, b, i)]
           f == CHOOSE h : h = Loop(a, b, h)
<1>1. n \in Nat
  BY LongerType
<1>2. g = Loop(a, b, g)
  <2>1. ASSUME NEW i \in 1..(n + 1)
        PROVE  g[i] = IF i > n THEN 0
                      ELSE IF Part(a, i) < Part(b, i) THEN -1
                      ELSE IF Part(a, i) > Part(b, i) THEN 1
                      ELSE g[i + 1]
    <3>1. g[i] = Value(a, b, i)
      OBVIOUS
    <3>2. CASE i > n
      BY <3>1, <3>2, ValueStep
    <3>3. CASE ~(i > n)
      <4>1. i + 1 \in 1..(n + 1)
        BY <1>1, <3>3
      <4>2. g[i + 1] = Value(a, b, i + 1)
        BY <4>1
      <4> HIDE DEF g
      <4> QED BY <3>1, <3>3, <4>2, ValueStep
    <3> QED BY <3>2, <3>3
  <2>2. g = [i \in 1..(n + 1) |-> g[i]]
    OBVIOUS
  <2> HIDE DEF g
  <2> QED BY <2>1, <2>2 DEF Loop
<1>3. f = Loop(a, b, f)
  <2> HIDE DEF g
  <2> QED BY <1>2
<1> HIDE DEF f, g
<1>4. \A i \in 1..(n + 1) : f[i] = IF i > n THEN 0
                                  ELSE IF Part(a, i) < Part(b, i) THEN -1
                                  ELSE IF Part(a, i) > Part(b, i) THEN 1
                                  ELSE f[i + 1]
  <2>1. Loop(a, b, f) = [i \in 1..(n + 1) |-> IF i > n THEN 0
                                  ELSE IF Part(a, i) < Part(b, i) THEN -1
                                  ELSE IF Part(a, i) > Part(b, i) THEN 1
                                  ELSE f[i + 1]]
    BY DEF Loop
  <2> HIDE DEF n
  <2> QED BY <1>3, <2>1
<1> DEFINE T == {d \in 0..n : f[n + 1 - d] # Value(a, b, n + 1 - d)}
<1>5. ASSUME T # {} PROVE FALSE
  <2>1. T \in SUBSET Nat
    BY <1>1
  <2>2. PICK d \in T : \A e \in T : ~(e < d)
    BY <1>5, <2>1, Least
  <2> DEFINE i == n + 1 - d
  <2>3. d \in 0..n /\ i \in 1..(n + 1) /\ f[i] # Value(a, b, i)
    BY <1>1, <2>2
  <2>4. CASE i > n
    BY <1>4, <2>3, <2>4, ValueStep
  <2>5. CASE ~(i > n)
    <3>1. d - 1 \in 0..n /\ d - 1 < d /\ n + 1 - (d - 1) = i + 1
      BY <1>1, <2>3, <2>5
    <3>2. f[i + 1] = Value(a, b, i + 1)
      BY <2>2, <3>1
    <3> HIDE DEF i
    <3> QED BY <1>4, <2>3, <2>5, <3>2, ValueStep
  <2> QED BY <2>4, <2>5
<1>6. n \in 0..n /\ n + 1 - n = 1
  BY <1>1
<1>7. f[1] = Value(a, b, 1)
  BY <1>5, <1>6
<1>8. CompareVersions(a, b) = f[1]
  BY LoopIs DEF f
<1> QED BY <1>7, <1>8

(* What compare_versions returns, for versions of any length: the loop     *)
(* says which of them is first less where they first differ.               *)
THEOREM LoopDecides ==
  ASSUME NEW a \in Version, NEW b \in Version
  PROVE  CompareVersions(a, b) = IF Before(a, b) THEN -1 ELSE IF Same(a, b) THEN 0 ELSE 1
<1>1. /\ Before(a, b) <=> \E k \in 1..Longer(a, b) : LessAt(a, b, 1, k)
      /\ Before(b, a) <=> \E k \in 1..Longer(a, b) : LessAt(b, a, 1, k)
  BY LongerType DEF Before, FirstLess, LessAt
<1>2. Same(a, b) => ~Before(a, b) /\ ~Before(b, a)
  BY Asymmetric DEF Same
<1>3. Same(a, b) \/ Before(a, b) \/ Before(b, a)
  BY Total
<1> QED BY <1>1, <1>2, <1>3, LoopValue DEF Value

(* Of the constraints (=v), (<v) and (>v) every version satisfies exactly  *)
(* one, whatever the number of their parts.                                *)
THEOREM ExactlyOne ==
  ASSUME NEW a \in Version, NEW v \in Version, NEW n,
         NEW r \in {"=", "<", ">"}
  PROVE  LET C(q) == [name |-> n, relation |-> q, version |-> v] IN
         Satisfies(a, C(r)) <=> \A q \in {"=", "<", ">"} \ {r} : ~Satisfies(a, C(q))
<1> DEFINE C(q) == [name |-> n, relation |-> q, version |-> v]
<1>1. CompareVersions(a, v) \in {-1, 0, 1}
  BY LoopDecides
<1>2. /\ Satisfies(a, C("=")) <=> CompareVersions(a, v) = 0
      /\ Satisfies(a, C("<")) <=> CompareVersions(a, v) < 0
      /\ Satisfies(a, C(">")) <=> CompareVersions(a, v) > 0
  BY DEF Satisfies
<1> HIDE DEF C
<1>3. /\ Satisfies(a, C("=")) <=> ~Satisfies(a, C("<")) /\ ~Satisfies(a, C(">"))
      /\ Satisfies(a, C("<")) <=> ~Satisfies(a, C("=")) /\ ~Satisfies(a, C(">"))
      /\ Satisfies(a, C(">")) <=> ~Satisfies(a, C("=")) /\ ~Satisfies(a, C("<"))
  BY <1>1, <1>2
<1>4. Satisfies(a, C(r)) <=> \A q \in {"=", "<", ">"} \ {r} : ~Satisfies(a, C(q))
  <2>1. CASE r = "="
    BY <1>3, <2>1
  <2>2. CASE r = "<"
    BY <1>3, <2>2
  <2>3. CASE r = ">"
    BY <1>3, <2>3
  <2> QED BY <2>1, <2>2, <2>3
<1> QED BY <1>4 DEF C

(* Versions are upgraded along a line: what is before a version is before  *)
(* every later one, so that a constraint (>v) that is satisfied stays so.  *)
THEOREM Transitive ==
  ASSUME NEW a \in Version, NEW b \in Version, NEW c \in Version,
         Before(a, b), Before(b, c)
  PROVE  Before(a, c)
<1>1. PICK i \in DOMAIN a \cup DOMAIN b : FirstLess(a, b, i)
  BY DEF Before
<1>2. PICK k \in DOMAIN b \cup DOMAIN c : FirstLess(b, c, k)
  BY DEF Before
<1>3. i \in Nat \ {0} /\ k \in Nat \ {0}
  BY Indices
<1>4. /\ Part(a, i) \in Int /\ Part(b, i) \in Int /\ Part(c, i) \in Int
      /\ Part(a, k) \in Int /\ Part(b, k) \in Int /\ Part(c, k) \in Int
  <2>1. i \in Nat /\ k \in Nat
    BY <1>3
  <2>2. Part(a, i) \in Int /\ Part(b, i) \in Int /\ Part(c, i) \in Int
    BY <2>1, PartType
  <2>3. Part(a, k) \in Int /\ Part(b, k) \in Int /\ Part(c, k) \in Int
    BY <2>1, PartType
  <2> QED BY <2>2, <2>3
<1> DEFINE m == IF i < k THEN i ELSE k
<1>5. m \in Nat \ {0} /\ m <= i /\ m <= k /\ (m = i \/ m = k)
  BY <1>3
<1>6. \A j \in 1..(m - 1) : Part(a, j) = Part(c, j)
  <2> SUFFICES ASSUME NEW j \in 1..(m - 1) PROVE Part(a, j) = Part(c, j)
    OBVIOUS
  <2>1. j \in 1..(i - 1) /\ j \in 1..(k - 1)
    BY <1>3, <1>5
  <2> QED BY <2>1, <1>1, <1>2 DEF FirstLess
<1>7. Part(a, m) < Part(c, m)
  <2>1. CASE i < k
    <3>1. i \in 1..(k - 1) /\ m = i
      BY <1>3, <2>1
    <3> QED BY <3>1, <1>1, <1>2, <1>4 DEF FirstLess
  <2>2. CASE k < i
    <3>1. k \in 1..(i - 1) /\ m = k
      BY <1>3, <2>2
    <3> QED BY <3>1, <1>1, <1>2, <1>4 DEF FirstLess
  <2>3. CASE i = k
    <3>1. Part(a, i) < Part(b, i) /\ Part(b, i) < Part(c, i)
      BY <2>3, <1>1, <1>2 DEF FirstLess
    <3>2. m = i
      BY <2>3
    <3> QED BY <3>1, <3>2, <1>4
  <2> QED BY <1>3, <2>1, <2>2, <2>3
<1>8. m \in DOMAIN a \cup DOMAIN c
  <2> SUFFICES ASSUME m \notin DOMAIN a \cup DOMAIN c PROVE FALSE
    OBVIOUS
  <2>1. Part(a, m) = 0 /\ Part(c, m) = 0
    BY DEF Part
  <2> QED BY <2>1, <1>7
<1>9. FirstLess(a, c, m)
  BY <1>6, <1>7 DEF FirstLess
<1> QED BY <1>8, <1>9 DEF Before

=============================================================================
