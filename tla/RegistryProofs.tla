--------------------------- MODULE RegistryProofs ---------------------------
(***************************************************************************)
(* Proofs about Registry, for any packages, manifests, operator processes, *)
(* TUIs, degree of concurrency and faults.                                 *)
(***************************************************************************)
EXTENDS Registry, TLAPS

USE ManifestsAssumption

-----------------------------------------------------------------------------
(* Type correctness. *)

(* load yields entries. *)
LEMMA LoadTyped ==
  ASSUME TypeOK, NEW m \in Entries PROVE Load(m) \in Entries
BY DEF TypeOK, Load, Entries

(* No entries are entries. *)
LEMMA EmptyTyped == Empty \in Entries
BY DEF Empty, Entries

(* What presents, attaches and forms put into directories and entries. *)
LEMMA PlainTyped ==
  Plain \in Entry /\ Entry \subseteq Written /\ None \notin Entry
BY DEF Plain, Entry, Written, Unsaid

LEMMA MergedTyped ==
  ASSUME NEW e \in Entry, NEW m \in Written
  PROVE  /\ Merged(e, m) \in Entry
         /\ Says(m, Merged(e, m))
         /\ m = e => Merged(e, m) = e
BY DEF Merged, Entry, Written, Unsaid, Says

LEMMA FormsTyped == Forms \subseteq Entry
BY PlainTyped, MergedTyped DEF Forms

(* A process that ends or returns to its menu keeps the types. *)
LEMMA ReturnsTyped ==
  ASSUME TypeOK, NEW p \in Procs, Returns(p) \/ Exits(p)
  PROVE  /\ mem' \in [Procs -> Entries]
         /\ pc' \in [Procs -> {"off", "menu", "refresh", "asked", "remove",
                               "save", "write"}]
         /\ kind' \in [Procs -> {"none", "present", "attach", "remove", "clear"}]
         /\ names' \in [Procs -> SUBSET Names]
         /\ form' \in [Procs -> SUBSET Names]
<1>1. CASE Exits(p)
  BY <1>1, EmptyTyped DEF TypeOK, Exits, Over, Goto
<1>2. CASE Returns(p) /\ p \in Tuis
  BY <1>2 DEF TypeOK, Returns, Over, Goto
<1> QED BY <1>1, <1>2 DEF Returns

(* A command that begins keeps the types. *)
LEMMA BeginsTyped ==
  ASSUME TypeOK, NEW p \in Procs, NEW m \in Entries, NEW k \in Kinds,
         NEW ns \in SUBSET Names, Begins(p, m, k, ns), tidy' \in BOOLEAN
  PROVE  TypeOK'
BY ChoicesAssumption DEF TypeOK, Begins, Goto

(* Who is at its question has accepted the packages it is about: a create  *)
(* packages it does not know, the others packages it knows.                *)
Accepted ==
  \A p \in Procs : pc[p] = "asked" => Accepts(mem[p], kind[p], names[p])

(* The initial state has the right types. *)
LEMMA TypeInit == Init => TypeOK
BY EmptyTyped, PlainTyped DEF Init, TypeOK, Entries

(* Every step keeps the types. *)
LEMMA TypeStep == ASSUME TypeOK, Accepted, [Next]_vars PROVE TypeOK'
<1> USE DEF Goto
<1>0. Load(Empty) \in Entries /\ \A p \in Procs : Load(mem[p]) \in Entries
  BY LoadTyped, EmptyTyped DEF TypeOK
<1>1. CASE UNCHANGED vars
  BY <1>1 DEF vars, TypeOK
<1>2. CASE DaemonStarts
  BY <1>2 DEF DaemonStarts, TypeOK, Quiescent, Known
<1>3. ASSUME NEW p \in Procs, Command(p) PROVE TypeOK'
  <2>1. tidy' \in BOOLEAN
    BY <1>3 DEF Command, TypeOK
  <2>2. PICK k \in Kinds, ns \in SUBSET Names : Begins(p, Load(Empty), k, ns)
    BY <1>3 DEF Command
  <2> QED BY <1>0, <2>1, <2>2, BeginsTyped
<1>4. ASSUME NEW p \in Procs, TuiStarts(p) \/ TuiRefresh(p) PROVE TypeOK'
  <2>1. mem' \in [Procs -> Entries] /\ pc' = [pc EXCEPT ![p] = "menu"]
    BY <1>0, <1>4 DEF TuiStarts, TuiRefresh, TypeOK
  <2>2. tidy' \in BOOLEAN
    BY <1>4 DEF TuiStarts, TuiRefresh, TypeOK
  <2>3. form' \in [Procs -> SUBSET Names]
    BY <1>4 DEF TuiStarts, TuiRefresh, TypeOK
  <2> QED BY <1>4, <2>1, <2>2, <2>3 DEF TuiStarts, TuiRefresh, TypeOK
<1>5. ASSUME NEW p \in Procs, TuiCommand(p) PROVE TypeOK'
  <2>1. tidy' \in BOOLEAN /\ mem[p] \in Entries
    BY <1>5 DEF TuiCommand, TypeOK
  <2>2. PICK k \in Kinds, ns \in SUBSET Names : Begins(p, mem[p], k, ns)
    BY <1>5 DEF TuiCommand
  <2> QED BY <2>1, <2>2, BeginsTyped
<1>6. ASSUME NEW p \in Procs, TuiEdit(p) PROVE TypeOK'
  <2>1. PICK n \in form[p] : \E m \in Forms :
          /\ dirs' = [dirs EXCEPT ![n] = m]
          /\ tidy' = (tidy /\ mem[p][n] # None)
          /\ unread' = unread \cup {n}
    BY <1>6 DEF TuiEdit
  <2>2. n \in Names
    BY DEF TypeOK
  <2>3. dirs' \in [Names -> {None} \cup Written]
    BY <2>1, <2>2, FormsTyped, PlainTyped DEF TypeOK
  <2>4. tidy' \in BOOLEAN /\ unread' \subseteq Names
    BY <2>1, <2>2 DEF TypeOK
  <2> QED BY <1>6, <2>3, <2>4 DEF TuiEdit, TypeOK
<1>14. ASSUME NEW p \in Procs, TuiSelects(p) PROVE TypeOK'
  <2>1. PICK S \in {{}} \cup {{n} : n \in Known(mem[p])} :
          form' = [form EXCEPT ![p] = S]
    BY <1>14 DEF TuiSelects
  <2>2. S \subseteq Names
    BY <2>1 DEF Known
  <2> QED BY <1>14, <2>1, <2>2 DEF TuiSelects, TypeOK
<1>7. ASSUME NEW p \in Procs, TuiQuits(p) \/ Declines(p) \/ Killed(p)
      PROVE  TypeOK'
  BY <1>7, ReturnsTyped DEF TuiQuits, Declines, Killed, TypeOK
<1>8. ASSUME NEW p \in Procs, Presents(p) PROVE TypeOK'
  <2>0. PICK n \in names[p] : \E m \in Manifests \cup {None} :
          /\ dirs' = [dirs EXCEPT ![n] = IF m = None THEN Found(n) ELSE m]
          /\ mem' = [mem EXCEPT ![p][n] = Plain]
          /\ unread' = IF m = None THEN unread \ {n} ELSE unread \cup {n}
    BY <1>8 DEF Presents
  <2>1. PICK m \in Manifests \cup {None} :
          /\ dirs' = [dirs EXCEPT ![n] = IF m = None THEN Found(n) ELSE m]
          /\ mem' = [mem EXCEPT ![p][n] = Plain]
          /\ unread' = IF m = None THEN unread \ {n} ELSE unread \cup {n}
    BY <2>0
  <2>2. dirs' \in [Names -> {None} \cup Written]
    <3>1. n \in Names /\ Found(n) \in Written
      BY PlainTyped DEF TypeOK, Found
    <3> QED BY <2>1, <3>1 DEF TypeOK
  <2>3. mem' \in [Procs -> Entries]
    BY <2>1, PlainTyped DEF TypeOK, Entries
  <2>4. pc' = [pc EXCEPT ![p] = "save"]
    BY <1>8 DEF Presents
  <2>5. unread' \subseteq Names
    BY <2>1 DEF TypeOK
  <2> QED BY <1>8, <2>2, <2>3, <2>4, <2>5 DEF Presents, TypeOK
<1>9. ASSUME NEW p \in Procs, PresentFails(p) PROVE TypeOK'
  <2>1. PICK n \in names[p] : \E m \in Manifests \cup {Found(n)} :
          dirs' = [dirs EXCEPT ![n] = m]
    BY <1>9 DEF PresentFails
  <2>2. Found(n) \in Written
    BY PlainTyped DEF TypeOK, Found
  <2>3. dirs' \in [Names -> {None} \cup Written]
    BY <2>1, <2>2 DEF TypeOK
  <2> QED BY <1>9, <2>3, ReturnsTyped DEF PresentFails, TypeOK
<1>10. ASSUME NEW p \in Procs, Attaches(p) PROVE TypeOK'
  <2>0. PICK n \in names[p] : \E m \in Manifests \cup {mem[p][n]} :
          IF dirs[n] = None
            THEN Returns(p) /\ UNCHANGED <<dirs, unread>>
            ELSE /\ dirs' = [dirs EXCEPT ![n] = m]
                 /\ mem' = [mem EXCEPT ![p][n] = Merged(@, m)]
                 /\ unread' = unread \ {n}
                 /\ Goto(p, "save")
                 /\ UNCHANGED <<kind, names, form>>
    BY <1>10 DEF Attaches
  <2>1. PICK m \in Manifests \cup {mem[p][n]} :
          IF dirs[n] = None
            THEN Returns(p) /\ UNCHANGED <<dirs, unread>>
            ELSE /\ dirs' = [dirs EXCEPT ![n] = m]
                 /\ mem' = [mem EXCEPT ![p][n] = Merged(@, m)]
                 /\ unread' = unread \ {n}
                 /\ Goto(p, "save")
                 /\ UNCHANGED <<kind, names, form>>
    BY <2>0
  <2>2. n \in Names /\ mem[p] \in Entries
    BY DEF TypeOK
  <2>3. CASE dirs[n] = None
    <3>1. Returns(p) /\ UNCHANGED <<dirs, unread>>
      BY <2>1, <2>3
    <3> QED BY <1>10, <3>1, ReturnsTyped DEF Attaches, TypeOK
  <2>4. CASE dirs[n] # None
    <3>1. /\ dirs' = [dirs EXCEPT ![n] = m]
          /\ mem' = [mem EXCEPT ![p][n] = Merged(@, m)]
      BY <2>1, <2>4
    <3>0. mem[p][n] \in Entry /\ m \in Written
      <4>1. mem[p][n] # None
        BY <1>10 DEF Attaches, Accepted, Accepts
      <4>2. mem[p][n] \in Entry
        BY <2>2, <4>1 DEF Entries
      <4> QED BY <2>1, <4>2, PlainTyped
    <3>2. dirs' \in [Names -> {None} \cup Written]
      BY <2>2, <3>0, <3>1 DEF TypeOK
    <3>3. mem' \in [Procs -> Entries]
      <4>1. [mem[p] EXCEPT ![n] = Merged(@, m)] \in Entries
        BY <2>2, <3>0, MergedTyped DEF Entries
      <4> QED BY <3>1, <4>1 DEF TypeOK
    <3>4. pc' = [pc EXCEPT ![p] = "save"] /\ UNCHANGED <<kind, names, form>>
      BY <2>1, <2>4
    <3>5. unread' \subseteq Names
      BY <2>1, <2>4 DEF TypeOK
    <3> QED BY <1>10, <3>2, <3>3, <3>4, <3>5 DEF Attaches, TypeOK
  <2> QED BY <2>3, <2>4
<1>11. ASSUME NEW p \in Procs, Removes(p) PROVE TypeOK'
  <2>1. PICK n \in names[p] :
          /\ \/ dirs' = [dirs EXCEPT ![n] = None] /\ UNCHANGED tidy
             \/ dirs' \in {dirs, [dirs EXCEPT ![n] = Plain]} /\ tidy' = FALSE
          /\ mem' = [mem EXCEPT ![p][n] = None]
          /\ unread' = unread \ {n}
          /\ names' = [names EXCEPT ![p] = @ \ {n}]
          /\ Goto(p, IF names[p] = {n} THEN "save" ELSE "remove")
    BY <1>11 DEF Removes
  <2>2. dirs' \in [Names -> {None} \cup Written] /\ tidy' \in BOOLEAN
    <3>1. CASE dirs' = [dirs EXCEPT ![n] = None] /\ UNCHANGED tidy
      BY <3>1 DEF TypeOK
    <3>2. CASE dirs' \in {dirs, [dirs EXCEPT ![n] = Plain]} /\ tidy' = FALSE
      BY <3>2, PlainTyped DEF TypeOK
    <3> QED BY <2>1, <3>1, <3>2
  <2>3. mem' \in [Procs -> Entries]
    BY <2>1 DEF TypeOK, Entries
  <2>4. /\ names' \in [Procs -> SUBSET Names]
        /\ pc' \in [Procs -> {"off", "menu", "refresh", "asked", "remove",
                              "save", "write"}]
    BY <2>1 DEF TypeOK
  <2>5. unread' \subseteq Names
    BY <2>1 DEF TypeOK
  <2> QED BY <1>11, <2>2, <2>3, <2>4, <2>5 DEF Removes, TypeOK
<1>12. ASSUME NEW p \in Procs, SaveOpens(p) PROVE TypeOK'
  BY <1>12 DEF SaveOpens, TypeOK
<1>13. ASSUME NEW p \in Procs, SaveFails(p) \/ SaveWrites(p) PROVE TypeOK'
  <2>1. dirs' \in [Names -> {None} \cup Written] /\ unread' \subseteq Names
    BY <1>13, PlainTyped DEF SaveFails, SaveWrites, Generates, TypeOK, Entries
  <2>2. CASE SaveFails(p)
    BY <2>1, <2>2, ReturnsTyped DEF SaveFails, TypeOK
  <2>3. CASE SaveWrites(p)
    <3>1. json' \in Entries
      BY <2>3 DEF SaveWrites, TypeOK
    <3> QED BY <2>1, <2>3, <3>1, ReturnsTyped DEF SaveWrites, TypeOK
  <2> QED BY <1>13, <2>2, <2>3
<1> QED BY <1>1, <1>2, <1>3, <1>4, <1>5, <1>6, <1>7, <1>8, <1>9, <1>10,
           <1>11, <1>12, <1>13, <1>14 DEF Next, Process

(* A process that ends or returns to its menu keeps its memory if it goes  *)
(* on, and does not touch the other processes.                             *)
LEMMA ReturnsLeaves ==
  ASSUME TypeOK, NEW p \in Procs, Returns(p) \/ Exits(p)
  PROVE  /\ \A q \in Procs \ {p} : pc'[q] = pc[q]
         /\ pc'[p] = "off" \/ (pc'[p] = "refresh" /\ mem'[p] = mem[p])
<1>1. CASE Exits(p)
  BY <1>1 DEF Exits, Over, Goto, TypeOK
<1>2. CASE Returns(p) /\ p \in Tuis
  BY <1>2 DEF Returns, Over, Goto, TypeOK
<1> QED BY <1>1, <1>2 DEF Returns

(* A process does not touch the place, command and memory of another.      *)
LEMMA OnlyItself ==
  ASSUME TypeOK, NEW p \in Procs, Process(p), NEW q \in Procs \ {p}
  PROVE  /\ pc'[q] = pc[q] /\ mem'[q] = mem[q]
         /\ kind'[q] = kind[q] /\ names'[q] = names[q]
<1> USE DEF Goto, TypeOK
<1>1. CASE Command(p) \/ TuiCommand(p)
  BY <1>1 DEF Command, TuiCommand, Begins
<1>2. CASE TuiStarts(p) \/ TuiRefresh(p) \/ TuiSelects(p) \/ TuiEdit(p)
  BY <1>2 DEF TuiStarts, TuiRefresh, TuiSelects, TuiEdit
<1>3. CASE Exits(p) \/ Returns(p)
  BY <1>3 DEF Exits, Returns, Over
<1>4. CASE TuiQuits(p) \/ Declines(p) \/ PresentFails(p) \/ SaveFails(p)
           \/ SaveWrites(p) \/ Killed(p)
  BY <1>3, <1>4 DEF TuiQuits, Declines, PresentFails, SaveFails, SaveWrites,
     Killed
<1>5. CASE Presents(p) \/ SaveOpens(p)
  BY <1>5 DEF Presents, SaveOpens
<1>6. CASE Attaches(p)
  <2>1. PICK n \in names[p] : \E m \in Manifests \cup {mem[p][n]} :
          \/ Returns(p)
          \/ mem' = [mem EXCEPT ![p][n] = Merged(@, m)] /\ Goto(p, "save")
             /\ UNCHANGED <<kind, names>>
    BY <1>6 DEF Attaches
  <2> QED BY <1>3, <2>1
<1>7. CASE Removes(p)
  BY <1>7 DEF Removes
<1> QED BY <1>1, <1>2, <1>4, <1>5, <1>6, <1>7 DEF Process

(* A command is accepted where it begins. *)
LEMMA BeginsAccepted ==
  ASSUME TypeOK, NEW p \in Procs, NEW m, NEW k, NEW ns, Begins(p, m, k, ns)
  PROVE  Accepts(mem[p], kind[p], names[p])'
<1>1. Accepts(m, k, ns) /\ mem'[p] = m /\ kind'[p] = k /\ names'[p] = ns
  BY DEF Begins, TypeOK
<1> QED BY <1>1 DEF Accepts

(* Only a command that begins is at its question. *)
LEMMA AskedStep ==
  ASSUME TypeOK, Accepted, [Next]_vars PROVE Accepted'
<1>1. CASE UNCHANGED vars \/ DaemonStarts
  BY <1>1 DEF vars, DaemonStarts, Accepted, Accepts
<1>2. ASSUME NEW p \in Procs, Process(p) PROVE Accepted'
  <2>1. SUFFICES pc'[p] = "asked" => Accepts(mem[p], kind[p], names[p])'
    <3>1. SUFFICES ASSUME NEW q \in Procs, pc'[q] = "asked"
                   PROVE  Accepts(mem[q], kind[q], names[q])'
      BY DEF Accepted
    <3>2. CASE q # p
      BY <1>2, <3>1, <3>2, OnlyItself DEF Accepted, Accepts
    <3>3. CASE q = p
      BY <2>1, <3>1, <3>3
    <3> QED BY <3>2, <3>3
  <2>2. CASE Command(p)
    BY <2>2, BeginsAccepted DEF Command
  <2>3. CASE TuiCommand(p)
    BY <2>3, BeginsAccepted DEF TuiCommand
  <2>4. CASE Exits(p) \/ Returns(p)
    BY <2>4, ReturnsLeaves
  <2>5. CASE TuiQuits(p) \/ Declines(p) \/ PresentFails(p) \/ SaveFails(p)
             \/ SaveWrites(p) \/ Killed(p)
    BY <2>4, <2>5 DEF TuiQuits, Declines, PresentFails, SaveFails,
       SaveWrites, Killed
  <2>6. CASE TuiStarts(p) \/ TuiRefresh(p)
    BY <2>6 DEF TuiStarts, TuiRefresh, Goto, TypeOK
  <2>7. CASE TuiSelects(p) \/ TuiEdit(p)
    BY <2>7 DEF TuiSelects, TuiEdit
  <2>8. CASE Presents(p) \/ SaveOpens(p)
    BY <2>8 DEF Presents, SaveOpens, Goto, TypeOK
  <2>9. CASE Attaches(p)
    <3>1. Returns(p) \/ Goto(p, "save")
      BY <2>9 DEF Attaches
    <3> QED BY <2>4, <3>1 DEF Goto, TypeOK
  <2>10. CASE Removes(p)
    <3>1. Goto(p, "save") \/ Goto(p, "remove")
      BY <2>10 DEF Removes
    <3> QED BY <3>1 DEF Goto, TypeOK
  <2> QED BY <1>2, <2>2, <2>3, <2>5, <2>6, <2>7, <2>8, <2>9, <2>10 DEF Process
<1> QED BY <1>1, <1>2 DEF Next

(* registry.json, the package directories and the memory of every process  *)
(* are always entries of the catalogue, or the file does not parse; every  *)
(* process is at a known point of a command.                               *)
THEOREM RegistryTypeCorrect == Spec => []TypeOK
<1>1. Init => TypeOK /\ Accepted
  BY TypeInit DEF Init, Accepted
<1>2. TypeOK /\ Accepted /\ [Next]_vars => TypeOK' /\ Accepted'
  BY TypeStep, AskedStep
<1> QED BY <1>1, <1>2, PTL DEF Spec

-----------------------------------------------------------------------------
(* While nothing has disturbed the commands at most one process runs, what *)
(* it has in memory agrees with the directories all the time, and          *)
(* registry.json does except between the change and the end of save.       *)
OneRuns == \A p, q \in Procs : pc[p] # "off" /\ pc[q] # "off" => p = q
MemAgrees == \A p \in Procs : pc[p] # "off" => Agree(mem[p])
Stored == \A p \in Procs : pc[p] \in {"off", "menu", "refresh", "asked"}
FileAgrees == Stored => json # Torn /\ Agree(json)
ServesAll == serves = Known(dirs)
DaemonAgrees == fresh => Quiescent /\ ServesAll
TidyInv == tidy => OneRuns /\ MemAgrees /\ FileAgrees /\ DaemonAgrees

(* What load yields agrees with the directories when the file does.        *)
LEMMA LoadAgrees ==
  ASSUME TypeOK, json # Torn, Agree(json), NEW m \in Entries,
         m = Empty \/ Agree(m)
  PROVE  Agree(Load(m))
BY DEF TypeOK, Load, Agree, Entries, Empty

(* When the one running process ends or returns to its menu, and the file  *)
(* is whole, the invariant holds again.                                    *)
LEMMA ReturnsTidy ==
  ASSUME TypeOK, NEW p \in Procs, pc[p] # "off", OneRuns,
         Returns(p) \/ Exits(p),
         json' # Torn, Agree(json)', fresh' => Quiescent' /\ ServesAll',
         \A n \in Names : mem[p][n] # None <=> dirs'[n] # None
  PROVE  TidyInv'
<1>1. /\ \A q \in Procs \ {p} : pc[q] = "off" /\ pc'[q] = "off"
      /\ pc'[p] = "off" \/ (pc'[p] = "refresh" /\ mem'[p] = mem[p])
  BY ReturnsLeaves DEF OneRuns
<1>2. OneRuns'
  BY <1>1 DEF OneRuns
<1>3. MemAgrees'
  BY <1>1 DEF MemAgrees, Agree
<1>4. FileAgrees'
  BY DEF FileAgrees
<1>5. DaemonAgrees'
  BY DEF DaemonAgrees
<1> QED BY <1>2, <1>3, <1>4, <1>5 DEF TidyInv

(* A step of the one running process that leaves it in the middle of a     *)
(* command.                                                                *)
LEMMA MidTidy ==
  ASSUME TypeOK, NEW p \in Procs, pc[p] # "off", OneRuns,
         NEW l \in {"remove", "save", "write"}, Goto(p, l),
         Agree(mem[p])', ~fresh'
  PROVE  TidyInv'
<1>1. /\ \A q \in Procs \ {p} : pc[q] = "off" /\ pc'[q] = "off"
      /\ pc'[p] = l
  BY DEF TypeOK, OneRuns, Goto
<1>2. OneRuns' /\ MemAgrees'
  BY <1>1 DEF OneRuns, MemAgrees
<1>3. FileAgrees'
  BY <1>1 DEF FileAgrees, Stored
<1> QED BY <1>2, <1>3 DEF TidyInv, DaemonAgrees

(* A command that begins, alone or from the menu of the one TUI that runs. *)
LEMMA BeginsTidy ==
  ASSUME TypeOK, NEW p \in Procs, NEW m \in Entries, NEW k, NEW ns,
         Begins(p, m, k, ns), \A q \in Procs \ {p} : pc[q] = "off",
         json # Torn, Agree(json), Agree(m)
  PROVE  TidyInv'
<1>1. /\ \A q \in Procs \ {p} : pc'[q] = "off"
      /\ mem'[p] = m /\ ~fresh' /\ UNCHANGED <<json, dirs>>
  BY DEF Begins, Goto, TypeOK
<1>2. OneRuns'
  BY <1>1 DEF OneRuns
<1>3. MemAgrees'
  BY <1>1 DEF MemAgrees, Agree
<1>4. FileAgrees'
  BY <1>1 DEF FileAgrees, Agree
<1> QED BY <1>1, <1>2, <1>3, <1>4 DEF TidyInv, DaemonAgrees

(* Initially there is no package anywhere. *)
LEMMA TidyInit == Init => TidyInv
BY EmptyTyped, ChoicesAssumption DEF Init, TidyInv, OneRuns, MemAgrees,
   FileAgrees, DaemonAgrees, Agree, ServesAll, Known, Empty, Entries, Quiescent, Idle

(* Every step keeps the invariant. *)
LEMMA TidyStep ==
  ASSUME TypeOK, TypeOK', TidyInv, [Next]_vars PROVE TidyInv'
<1> SUFFICES ASSUME tidy' PROVE TidyInv'
  BY DEF TidyInv
<1>1. CASE UNCHANGED vars
  BY <1>1 DEF vars, TidyInv, OneRuns, MemAgrees, FileAgrees, Stored,
     DaemonAgrees, Agree, ServesAll, Known, Quiescent, Idle
<1>2. CASE DaemonStarts
  <2>1. OneRuns /\ MemAgrees /\ FileAgrees
    BY <1>2 DEF DaemonStarts, TidyInv
  <2>2. (OneRuns /\ MemAgrees /\ FileAgrees)'
    BY <1>2, <2>1 DEF DaemonStarts, OneRuns, MemAgrees, FileAgrees, Stored, Agree
  <2>3. ASSUME Quiescent PROVE ServesAll'
    <3>1. json # Torn /\ Agree(json)
      BY <2>1, <2>3 DEF FileAgrees, Stored, Quiescent, Idle
    <3>2. Agree(Load(Empty))
      BY <3>1, EmptyTyped, LoadAgrees
    <3> QED BY <1>2, <3>2 DEF DaemonStarts, Agree, ServesAll, Known
  <2>4. fresh' => Quiescent'
    BY <1>2 DEF DaemonStarts, Quiescent, Idle
  <2>5. fresh' => Quiescent
    BY <1>2 DEF DaemonStarts
  <2> QED BY <2>2, <2>3, <2>4, <2>5 DEF TidyInv, DaemonAgrees
<1>3. ASSUME NEW p \in Procs, pc[p] # "off", Process(p), tidy PROVE TidyInv'
  <2>1. /\ OneRuns /\ Agree(mem[p]) /\ mem[p] \in Entries
        /\ \A q \in Procs \ {p} : pc[q] = "off"
        /\ fresh => Quiescent /\ ServesAll
    BY <1>3 DEF TidyInv, OneRuns, MemAgrees, DaemonAgrees, TypeOK
  <2>2. pc[p] \in {"menu", "refresh", "asked"} => json # Torn /\ Agree(json)
    BY <1>3, <2>1 DEF TidyInv, FileAgrees, Stored
  <2>3. pc[p] # "menu" => ~fresh
    BY <1>3, <2>1 DEF Quiescent, Idle
  <2>4. ASSUME TuiRefresh(p) PROVE TidyInv'
    <3>1. Agree(Load(mem[p]))
      BY <2>1, <2>2, <2>4, LoadAgrees DEF TuiRefresh
    <3>2. /\ \A q \in Procs \ {p} : pc'[q] = "off"
          /\ mem'[p] = Load(mem[p]) /\ pc'[p] = "menu"
          /\ UNCHANGED <<json, dirs, serves, fresh>>
      BY <2>1, <2>4 DEF TuiRefresh, Goto, TypeOK
    <3>3. OneRuns' /\ MemAgrees'
      BY <3>1, <3>2 DEF OneRuns, MemAgrees, Agree
    <3>4. FileAgrees' /\ DaemonAgrees'
      <4>1. FileAgrees'
        BY <2>2, <2>4, <3>2 DEF FileAgrees, Agree, TuiRefresh
      <4>2. Quiescent'
        BY <3>2 DEF Quiescent, Idle
      <4>3. fresh' => ServesAll'
        BY <2>1, <3>2 DEF ServesAll, Known
      <4> QED BY <4>1, <4>2, <4>3 DEF DaemonAgrees
    <3> QED BY <3>3, <3>4 DEF TidyInv
  <2>5. ASSUME TuiCommand(p) PROVE TidyInv'
    <3>1. PICK k \in Kinds, ns \in SUBSET Names : Begins(p, mem[p], k, ns)
      BY <2>5 DEF TuiCommand
    <3> QED BY <2>1, <2>2, <2>5, <3>1, BeginsTidy DEF TuiCommand
  <2>6. ASSUME TuiEdit(p) PROVE TidyInv'
    <3>0. PICK n \in form[p] : \E m \in Forms :
            /\ dirs' = [dirs EXCEPT ![n] = m]
            /\ tidy' = (tidy /\ mem[p][n] # None)
      BY <2>6 DEF TuiEdit
    <3>1. PICK m \in Forms :
            mem[p][n] # None /\ dirs' = [dirs EXCEPT ![n] = m]
      BY <3>0
    <3>2. n \in Names /\ dirs[n] # None /\ m # None
      BY <2>1, <3>1, FormsTyped, PlainTyped DEF Agree, TypeOK
    <3>3. \A k \in Names : dirs'[k] # None <=> dirs[k] # None
      BY <3>1, <3>2 DEF TypeOK
    <3>4. UNCHANGED <<json, mem, pc>> /\ ~fresh' /\ pc[p] = "menu"
      BY <2>6 DEF TuiEdit
    <3>5. OneRuns' /\ MemAgrees'
      BY <1>3, <3>3, <3>4 DEF TidyInv, OneRuns, MemAgrees, Agree
    <3>6. FileAgrees'
      BY <2>2, <3>3, <3>4 DEF FileAgrees, Agree
    <3> QED BY <3>4, <3>5, <3>6 DEF TidyInv, DaemonAgrees
  <2>15. ASSUME TuiSelects(p) PROVE TidyInv'
    <3>1. UNCHANGED <<json, dirs, mem, pc, serves, tidy, fresh>>
      BY <2>15 DEF TuiSelects
    <3> QED BY <1>3, <3>1 DEF TidyInv, OneRuns, MemAgrees, FileAgrees, Stored,
            DaemonAgrees, Agree, ServesAll, Known, Quiescent, Idle
  <2>7. ASSUME TuiQuits(p) \/ Declines(p) PROVE TidyInv'
    <3>1. /\ pc[p] \in {"menu", "asked"}
          /\ Returns(p) \/ Exits(p)
          /\ UNCHANGED <<json, dirs, serves, fresh>>
      BY <2>7 DEF TuiQuits, Declines
    <3>2. json' # Torn /\ Agree(json)'
      BY <2>2, <3>1 DEF Agree
    <3>3. fresh' => Quiescent' /\ ServesAll'
      <4>1. pc' = [pc EXCEPT ![p] = "off"] \/ pc' = [pc EXCEPT ![p] = "refresh"]
        BY <3>1 DEF Returns, Exits, Over, Goto
      <4>2. fresh' => TuiQuits(p) /\ ServesAll'
        BY <2>1, <2>3, <2>7, <3>1 DEF ServesAll, Known, Declines
      <4>3. TuiQuits(p) => Quiescent'
        BY <2>1 DEF TuiQuits, Exits, Over, Goto, Quiescent, Idle, TypeOK
      <4> QED BY <4>2, <4>3
    <3>4. \A n \in Names : mem[p][n] # None <=> dirs'[n] # None
      BY <2>1, <3>1 DEF Agree
    <3> QED BY <1>3, <2>1, <3>1, <3>2, <3>3, <3>4, ReturnsTidy
  <2>8. ASSUME Presents(p) PROVE TidyInv'
    <3>0. PICK n \in names[p] : \E m \in Manifests \cup {None} :
            /\ dirs' = [dirs EXCEPT ![n] = IF m = None THEN Found(n) ELSE m]
            /\ mem' = [mem EXCEPT ![p][n] = Plain]
      BY <2>8 DEF Presents
    <3>1. PICK m \in Manifests \cup {None} :
            /\ dirs' = [dirs EXCEPT ![n] = IF m = None THEN Found(n) ELSE m]
            /\ mem' = [mem EXCEPT ![p][n] = Plain]
      BY <3>0
    <3>4. n \in Names /\ Plain # None /\ Found(n) # None
      BY PlainTyped DEF TypeOK, Found
    <3>5. dirs'[n] # None /\ mem'[p][n] # None
      BY <3>1, <3>4 DEF TypeOK, Entries
    <3>6. \A k \in Names \ {n} : dirs'[k] = dirs[k] /\ mem'[p][k] = mem[p][k]
      BY <3>1, <3>4 DEF TypeOK, Entries
    <3>2. Agree(mem[p])'
      BY <2>1, <3>5, <3>6 DEF Agree
    <3>3. Goto(p, "save") /\ ~fresh'
      BY <2>3, <2>8 DEF Presents
    <3> QED BY <1>3, <2>1, <3>2, <3>3, MidTidy
  <2>9. ASSUME Attaches(p) PROVE TidyInv'
    <3>1. PICK n \in names[p] : \E m \in Manifests \cup {mem[p][n]} :
            IF dirs[n] = None
              THEN Returns(p) /\ UNCHANGED <<dirs, unread>>
              ELSE /\ dirs' = [dirs EXCEPT ![n] = m]
                   /\ mem' = [mem EXCEPT ![p][n] = Merged(@, m)]
                   /\ unread' = unread \ {n}
                   /\ Goto(p, "save")
                   /\ UNCHANGED <<kind, names, form>>
      BY <2>9 DEF Attaches
    <3>2. PICK m \in Manifests \cup {mem[p][n]} :
            IF dirs[n] = None
              THEN Returns(p) /\ UNCHANGED <<dirs, unread>>
              ELSE /\ dirs' = [dirs EXCEPT ![n] = m]
                   /\ mem' = [mem EXCEPT ![p][n] = Merged(@, m)]
                   /\ unread' = unread \ {n}
                   /\ Goto(p, "save")
                   /\ UNCHANGED <<kind, names, form>>
      BY <3>1
    <3>3. /\ pc[p] = "asked" /\ ~fresh' /\ UNCHANGED <<json, serves>>
          /\ json # Torn /\ Agree(json) /\ n \in Names
      BY <2>2, <2>3, <2>9 DEF Attaches, TypeOK
    <3>4. CASE dirs[n] = None
      <4>1. Returns(p) /\ UNCHANGED dirs
        BY <3>2, <3>4
      <4>2. Agree(json)' /\ \A k \in Names : mem[p][k] # None <=> dirs'[k] # None
        BY <2>1, <3>3, <4>1 DEF Agree
      <4> QED BY <1>3, <2>1, <3>3, <4>1, <4>2, ReturnsTidy
    <3>5. CASE dirs[n] # None
      <4>1. /\ dirs' = [dirs EXCEPT ![n] = m]
            /\ mem' = [mem EXCEPT ![p][n] = Merged(@, m)]
            /\ Goto(p, "save")
        BY <3>2, <3>5
      <4>2. mem[p][n] \in Entry /\ m \in Written /\ Merged(mem[p][n], m) \in Entry
        BY <2>1, <3>2, <3>3, <3>5, MergedTyped, PlainTyped DEF Agree, Entries
      <4>4. dirs'[n] # None /\ mem'[p][n] # None
        BY <2>1, <3>3, <4>1, <4>2, PlainTyped DEF TypeOK, Entries
      <4>5. \A k \in Names \ {n} : dirs'[k] = dirs[k] /\ mem'[p][k] = mem[p][k]
        BY <2>1, <3>3, <4>1 DEF TypeOK, Entries
      <4>3. Agree(mem[p])'
        BY <2>1, <4>4, <4>5 DEF Agree
      <4> QED BY <1>3, <2>1, <3>3, <4>1, <4>3, MidTidy
    <3> QED BY <3>4, <3>5
  <2>10. ASSUME Removes(p) PROVE TidyInv'
    <3>1. PICK n \in names[p] :
            /\ \/ dirs' = [dirs EXCEPT ![n] = None] /\ UNCHANGED tidy
               \/ dirs' \in {dirs, [dirs EXCEPT ![n] = Plain]} /\ tidy' = FALSE
            /\ mem' = [mem EXCEPT ![p][n] = None]
            /\ Goto(p, IF names[p] = {n} THEN "save" ELSE "remove")
      BY <2>10 DEF Removes
    <3>2. /\ dirs' = [dirs EXCEPT ![n] = None]
          /\ mem' = [mem EXCEPT ![p][n] = None]
      BY <3>1
    <3>3. Agree(mem[p])'
      BY <2>1, <3>2 DEF Agree, TypeOK, Entries
    <3>4. ~fresh'
      BY <2>3, <2>10 DEF Removes
    <3>5. Goto(p, "save") \/ Goto(p, "remove")
      BY <3>1
    <3> QED BY <1>3, <2>1, <3>3, <3>4, <3>5, MidTidy
  <2>11. ASSUME SaveOpens(p) PROVE TidyInv'
    <3>1. Goto(p, "write") /\ UNCHANGED <<dirs, mem, fresh>> /\ ~fresh
      BY <2>3, <2>11 DEF SaveOpens
    <3>2. Agree(mem[p])'
      BY <2>1, <3>1 DEF Agree
    <3> QED BY <1>3, <2>1, <3>1, <3>2, MidTidy
  <2>12. ASSUME SaveWrites(p) PROVE TidyInv'
    <3>1. /\ json' = mem[p] /\ Returns(p) /\ Generates(p) /\ ~fresh'
      BY <2>3, <2>12 DEF SaveWrites
    <3>2. \A n \in Names : mem[p][n] # None <=> dirs'[n] # None
      BY <2>1, <3>1 DEF Generates, Agree
    <3>3. json' # Torn
      BY <2>1, <3>1, ChoicesAssumption DEF Entries
    <3>4. Agree(json)'
      BY <3>1, <3>2 DEF Agree
    <3> QED BY <1>3, <2>1, <3>1, <3>2, <3>3, <3>4, ReturnsTidy
  <2>13. ~PresentFails(p) /\ ~SaveFails(p) /\ ~Killed(p)
    BY DEF PresentFails, SaveFails, Killed
  <2>14. ~Command(p) /\ ~TuiStarts(p)
    BY <1>3 DEF Command, TuiStarts
  <2> QED BY <1>3, <2>4, <2>5, <2>6, <2>7, <2>8, <2>9, <2>10, <2>11, <2>12,
             <2>13, <2>14, <2>15 DEF Process
<1>4. ASSUME NEW p \in Procs, Command(p) \/ TuiStarts(p) PROVE TidyInv'
  <2>1. tidy /\ \A q \in Procs : pc[q] = "off"
    BY <1>4 DEF Command, TuiStarts, Running
  <2>2. json # Torn /\ Agree(json) /\ (fresh => ServesAll)
    BY <2>1 DEF TidyInv, FileAgrees, Stored, DaemonAgrees
  <2>3. Load(Empty) \in Entries /\ Agree(Load(Empty))
    BY <2>2, EmptyTyped, LoadTyped, LoadAgrees
  <2>4. CASE Command(p)
    <3>1. PICK k \in Kinds, ns \in SUBSET Names : Begins(p, Load(Empty), k, ns)
      BY <2>4 DEF Command
    <3> QED BY <2>1, <2>2, <2>3, <3>1, BeginsTidy
  <2>5. CASE TuiStarts(p)
    <3>1. /\ \A q \in Procs \ {p} : pc'[q] = "off"
          /\ mem'[p] = Load(Empty) /\ pc'[p] = "menu"
          /\ UNCHANGED <<json, dirs, serves, fresh>>
      BY <2>1, <2>5 DEF TuiStarts, Goto, TypeOK
    <3>2. OneRuns' /\ MemAgrees'
      BY <2>3, <3>1 DEF OneRuns, MemAgrees, Agree
    <3>3. FileAgrees' /\ DaemonAgrees'
      BY <2>2, <3>1 DEF FileAgrees, DaemonAgrees, Quiescent, Idle, Agree, ServesAll,
         Known
    <3> QED BY <3>2, <3>3 DEF TidyInv
  <2> QED BY <1>4, <2>4, <2>5
<1>5. ASSUME NEW p \in Procs, Process(p) PROVE tidy
  BY <1>5 DEF Process, Command, TuiStarts, TuiRefresh, TuiCommand, TuiSelects,
     TuiEdit, TuiQuits, Declines, Presents, PresentFails, Attaches, Removes, SaveOpens,
     SaveFails, SaveWrites, Killed
<1>6. ASSUME NEW p \in Procs, Process(p), pc[p] = "off"
      PROVE  Command(p) \/ TuiStarts(p)
  BY <1>6 DEF Process, TuiRefresh, TuiCommand, TuiSelects, TuiEdit, TuiQuits, Declines,
     Presents, PresentFails, Attaches, Removes, SaveOpens, SaveFails,
     SaveWrites, Killed
<1> QED BY <1>1, <1>2, <1>3, <1>4, <1>5, <1>6 DEF Next

(* The invariant is inductive. *)
LEMMA Tidiness == Spec => []TidyInv
<1>1. TypeOK /\ TypeOK' /\ TidyInv /\ [Next]_vars => TidyInv'
  BY TidyStep
<1> QED BY <1>1, TidyInit, RegistryTypeCorrect, PTL DEF Spec

(* Whatever the commands, when they have run one at a time, none killed    *)
(* and none failing on the disk, registry.json parses and names exactly    *)
(* the package directories.                                                *)
THEOREM TidyCatalogue == Spec => []TidyAgrees
<1>1. TidyInv => TidyAgrees
  BY DEF TidyInv, FileAgrees, Stored, TidyAgrees, Quiescent, Idle
<1> QED BY <1>1, Tidiness, PTL

(* Under the same conditions a daemon started after the last command has   *)
(* exactly the packages whose directories exist.                           *)
THEOREM FreshDaemon == Spec => []FreshDaemonServes
<1>1. TidyInv => FreshDaemonServes
  BY DEF TidyInv, DaemonAgrees, FreshDaemonServes, ServesAll
<1> QED BY <1>1, Tidiness, PTL

-----------------------------------------------------------------------------
(* The manifests.  In memory and, between commands, in registry.json an    *)
(* entry says what the manifest in its directory says, but for those that  *)
(* a form wrote or a folder brought along.  That a create enters a package *)
(* that nobody has needs that it was unknown when the create was accepted. *)
Fits(es) ==
  \A n \in Names \ unread : es[n] # None => Says(dirs[n], es[n])
MemFits == \A p \in Procs : pc[p] # "off" => Fits(mem[p])
FileFits == Stored => Fits(json)
FitInv == Accepted /\ (tidy => MemFits /\ FileFits)

(* What load yields fits when the file does. *)
LEMMA LoadFits ==
  ASSUME TypeOK, json # Torn, Fits(json), NEW m \in Entries, m = Empty \/ Fits(m)
  PROVE  Fits(Load(m))
BY DEF TypeOK, Load, Fits, Entries, Empty

(* When the one running process p steps, the file fits afterwards, and its *)
(* memory does if it still runs, the invariant holds.                      *)
LEMMA FitsAlone ==
  ASSUME TypeOK, NEW p \in Procs, Process(p), Accepted',
         \A q \in Procs \ {p} : pc[q] = "off",
         pc'[p] # "off" => Fits(mem[p])', FileFits'
  PROVE  FitInv'
<1>1. ASSUME NEW q \in Procs, pc'[q] # "off" PROVE Fits(mem[q])'
  BY <1>1, OnlyItself
<1>2. MemFits'
  BY <1>1 DEF MemFits
<1> QED BY <1>2 DEF FitInv

(* Every step keeps the manifests. *)
LEMMA FitStep ==
  ASSUME TypeOK, TidyInv, FitInv, [Next]_vars PROVE FitInv'
<1>0. Accepted'
  BY AskedStep DEF FitInv
<1> SUFFICES ASSUME tidy' PROVE MemFits' /\ FileFits'
  BY <1>0 DEF FitInv
<1>1. CASE UNCHANGED vars
  BY <1>1 DEF vars, FitInv, MemFits, FileFits, Stored, Fits
<1>2. CASE DaemonStarts
  <2>1. MemFits /\ FileFits
    BY <1>2 DEF DaemonStarts, FitInv
  <2> QED BY <1>2, <2>1 DEF DaemonStarts, MemFits, FileFits, Stored, Fits
<1>3. ASSUME NEW p \in Procs, pc[p] # "off", Process(p), tidy PROVE FitInv'
  <2>1. /\ OneRuns /\ Agree(mem[p]) /\ Fits(mem[p]) /\ mem[p] \in Entries
        /\ \A q \in Procs \ {p} : pc[q] = "off"
    BY <1>3 DEF TidyInv, OneRuns, MemAgrees, FitInv, MemFits, TypeOK
  <2>2. pc[p] \in {"menu", "refresh", "asked"} => json # Torn /\ Fits(json)
    BY <1>3, <2>1 DEF TidyInv, FileAgrees, FitInv, FileFits, Stored
  <2>3. ASSUME Returns(p) \/ Exits(p), UNCHANGED <<dirs, unread>>, Fits(json')
        PROVE  FitInv'
    <3>1. Fits(json)'
      BY <2>3 DEF Fits
    <3>2. pc'[p] # "off" => Fits(mem[p])'
      BY <2>1, <2>3, ReturnsLeaves DEF Fits
    <3> QED BY <1>0, <1>3, <2>1, <3>1, <3>2, FitsAlone DEF FileFits
  <2>4. CASE TuiRefresh(p)
    <3>1. Fits(Load(mem[p]))
      BY <2>1, <2>2, <2>4, LoadFits DEF TuiRefresh
    <3>2. mem'[p] = Load(mem[p]) /\ UNCHANGED <<json, dirs, unread>>
      BY <2>4 DEF TuiRefresh, TypeOK
    <3>3. Fits(mem[p])' /\ Fits(json)'
      BY <2>2, <2>4, <3>1, <3>2 DEF Fits, TuiRefresh
    <3> QED BY <1>0, <1>3, <2>1, <3>3, FitsAlone DEF FileFits
  <2>5. CASE TuiCommand(p)
    <3>1. PICK k \in Kinds, ns \in SUBSET Names : Begins(p, mem[p], k, ns)
      BY <2>5 DEF TuiCommand
    <3>2. mem'[p] = mem[p] /\ UNCHANGED <<json, dirs, unread>>
      BY <3>1 DEF Begins, TypeOK
    <3>3. Fits(mem[p])' /\ Fits(json)'
      BY <2>1, <2>2, <2>5, <3>2 DEF Fits, TuiCommand
    <3> QED BY <1>0, <1>3, <2>1, <3>3, FitsAlone DEF FileFits
  <2>6. CASE TuiSelects(p)
    <3>1. UNCHANGED <<json, dirs, mem, unread>>
      BY <2>6 DEF TuiSelects
    <3>2. Fits(mem[p])' /\ Fits(json)'
      BY <2>1, <2>2, <2>6, <3>1 DEF Fits, TuiSelects
    <3> QED BY <1>0, <1>3, <2>1, <3>2, FitsAlone DEF FileFits
  <2>7. CASE TuiEdit(p)
    <3>1. PICK n \in form[p] : \E m \in Forms :
            dirs' = [dirs EXCEPT ![n] = m] /\ unread' = unread \cup {n}
      BY <2>7 DEF TuiEdit
    <3>2. PICK m \in Forms :
            dirs' = [dirs EXCEPT ![n] = m] /\ unread' = unread \cup {n}
      BY <3>1
    <3>3. UNCHANGED <<json, mem>> /\ pc[p] = "menu"
      BY <2>7 DEF TuiEdit
    <3>4. \A k \in Names \ unread' : k \in Names \ unread /\ dirs'[k] = dirs[k]
      BY <3>2 DEF TypeOK
    <3>5. Fits(mem[p])' /\ Fits(json)'
      BY <2>1, <2>2, <3>3, <3>4 DEF Fits
    <3> QED BY <1>0, <1>3, <2>1, <3>5, FitsAlone DEF FileFits
  <2>8. CASE TuiQuits(p) \/ Declines(p)
    <3>1. /\ pc[p] \in {"menu", "asked"}
          /\ Returns(p) \/ Exits(p)
          /\ UNCHANGED <<json, dirs, unread>>
      BY <2>8 DEF TuiQuits, Declines
    <3> QED BY <2>2, <2>3, <3>1
  <2>9. CASE Presents(p)
    <3>0. PICK n \in names[p] : \E m \in Manifests \cup {None} :
            /\ dirs' = [dirs EXCEPT ![n] = IF m = None THEN Found(n) ELSE m]
            /\ mem' = [mem EXCEPT ![p][n] = Plain]
            /\ unread' = IF m = None THEN unread \ {n} ELSE unread \cup {n}
      BY <2>9 DEF Presents
    <3>1. PICK m \in Manifests \cup {None} :
            /\ dirs' = [dirs EXCEPT ![n] = IF m = None THEN Found(n) ELSE m]
            /\ mem' = [mem EXCEPT ![p][n] = Plain]
            /\ unread' = IF m = None THEN unread \ {n} ELSE unread \cup {n}
      BY <3>0
    <3>2. /\ n \in Names /\ mem[p][n] = None
          /\ pc' = [pc EXCEPT ![p] = "save"]
      BY <2>9 DEF Presents, FitInv, Accepted, Accepts, TypeOK, Goto
    <3>3. Found(n) = Plain
      BY <2>1, <3>2 DEF Agree, Found
    <3>4. /\ m = None => dirs'[n] = Plain
          /\ mem'[p][n] = Plain
          /\ \A k \in Names \ {n} : dirs'[k] = dirs[k] /\ mem'[p][k] = mem[p][k]
      BY <3>1, <3>2, <3>3 DEF TypeOK, Entries
    <3>7. Says(Plain, Plain)
      BY DEF Says, Plain
    <3>5. Fits(mem[p])'
      BY <2>1, <3>1, <3>4, <3>7 DEF Fits
    <3>6. FileFits'
      BY <3>2 DEF FileFits, Stored, TypeOK
    <3> QED BY <1>0, <1>3, <2>1, <3>5, <3>6, FitsAlone
  <2>10. CASE Attaches(p)
    <3>1. PICK n \in names[p] : \E m \in Manifests \cup {mem[p][n]} :
            IF dirs[n] = None
              THEN Returns(p) /\ UNCHANGED <<dirs, unread>>
              ELSE /\ dirs' = [dirs EXCEPT ![n] = m]
                   /\ mem' = [mem EXCEPT ![p][n] = Merged(@, m)]
                   /\ unread' = unread \ {n}
                   /\ Goto(p, "save")
                   /\ UNCHANGED <<kind, names, form>>
      BY <2>10 DEF Attaches
    <3>2. /\ pc[p] = "asked" /\ n \in Names
          /\ UNCHANGED json
      BY <2>10 DEF Attaches, TypeOK
    <3>3. CASE Returns(p) /\ UNCHANGED <<dirs, unread>>
      BY <2>2, <2>3, <3>2, <3>3
    <3>4. CASE dirs[n] # None
      <4>1. PICK m \in Manifests \cup {mem[p][n]} :
              /\ dirs' = [dirs EXCEPT ![n] = m]
              /\ mem' = [mem EXCEPT ![p][n] = Merged(@, m)]
              /\ unread' = unread \ {n}
              /\ pc' = [pc EXCEPT ![p] = "save"]
        BY <3>1, <3>4 DEF Goto
      <4>0. mem[p][n] \in Entry /\ m \in Written
        BY <2>1, <3>2, <3>4, <4>1, PlainTyped DEF Agree, Entries
      <4>2. /\ dirs'[n] = m /\ mem'[p][n] = Merged(mem[p][n], m)
            /\ \A k \in Names \ {n} :
                 dirs'[k] = dirs[k] /\ mem'[p][k] = mem[p][k]
        BY <2>1, <3>2, <4>1 DEF TypeOK, Entries
      <4>5. Says(m, Merged(mem[p][n], m))
        BY <4>0, MergedTyped
      <4>3. Fits(mem[p])'
        BY <2>1, <4>1, <4>2, <4>5 DEF Fits
      <4>4. FileFits'
        BY <4>1 DEF FileFits, Stored, TypeOK
      <4> QED BY <1>0, <1>3, <2>1, <4>3, <4>4, FitsAlone
    <3> QED BY <3>1, <3>3, <3>4
  <2>11. CASE Removes(p)
    <3>1. PICK n \in names[p] :
            /\ \/ dirs' = [dirs EXCEPT ![n] = None] /\ UNCHANGED tidy
               \/ dirs' \in {dirs, [dirs EXCEPT ![n] = Plain]} /\ tidy' = FALSE
            /\ mem' = [mem EXCEPT ![p][n] = None]
            /\ unread' = unread \ {n}
            /\ Goto(p, IF names[p] = {n} THEN "save" ELSE "remove")
      BY <2>11 DEF Removes
    <3>2. dirs' = [dirs EXCEPT ![n] = None] /\ n \in Names
      BY <3>1 DEF TypeOK
    <3>3. /\ mem'[p][n] = None
          /\ \A m \in Names \ {n} : dirs'[m] = dirs[m] /\ mem'[p][m] = mem[p][m]
      BY <3>1, <3>2 DEF TypeOK, Entries
    <3>4. Fits(mem[p])'
      BY <2>1, <3>1, <3>3 DEF Fits
    <3>5. pc'[p] \in {"save", "remove"}
      BY <3>1 DEF Goto, TypeOK
    <3>6. FileFits'
      BY <3>5 DEF FileFits, Stored
    <3> QED BY <1>0, <1>3, <2>1, <3>4, <3>6, FitsAlone
  <2>12. CASE SaveOpens(p)
    <3>1. UNCHANGED <<dirs, mem, unread>> /\ pc' = [pc EXCEPT ![p] = "write"]
      BY <2>12 DEF SaveOpens, Goto
    <3>2. Fits(mem[p])'
      BY <2>1, <3>1 DEF Fits
    <3>3. FileFits'
      BY <3>1 DEF FileFits, Stored, TypeOK
    <3> QED BY <1>0, <1>3, <2>1, <3>2, <3>3, FitsAlone
  <2>13. CASE SaveWrites(p)
    <3>1. /\ json' = mem[p] /\ Returns(p) /\ Generates(p)
      BY <2>13 DEF SaveWrites
    <3>2. \A n \in Names \ unread' :
            dirs'[n] = mem[p][n] \/ (dirs'[n] = dirs[n] /\ n \notin unread)
      BY <3>1 DEF Generates
    <3>6. \A n \in Names : Says(mem[p][n], mem[p][n])
      BY DEF Says
    <3>3. \A n \in Names \ unread' : mem[p][n] # None => Says(dirs'[n], mem[p][n])
      BY <2>1, <3>2, <3>6 DEF Fits
    <3>4. Fits(json)'
      BY <3>1, <3>3 DEF Fits
    <3>5. pc'[p] # "off" => Fits(mem[p])'
      BY <3>1, <3>3, ReturnsLeaves DEF Fits
    <3> QED BY <1>0, <1>3, <2>1, <3>4, <3>5, FitsAlone DEF FileFits
  <2>14. ~PresentFails(p) /\ ~SaveFails(p) /\ ~Killed(p)
    BY DEF PresentFails, SaveFails, Killed
  <2>15. ~Command(p) /\ ~TuiStarts(p)
    BY <1>3 DEF Command, TuiStarts
  <2> QED BY <1>3, <2>4, <2>5, <2>6, <2>7, <2>8, <2>9, <2>10, <2>11, <2>12,
             <2>13, <2>14, <2>15 DEF Process
<1>4. ASSUME NEW p \in Procs, Command(p) \/ TuiStarts(p), Process(p)
      PROVE  FitInv'
  <2>1. tidy /\ \A q \in Procs : pc[q] = "off"
    BY <1>4 DEF Command, TuiStarts, Running
  <2>2. json # Torn /\ Fits(json)
    BY <2>1 DEF TidyInv, FileAgrees, Stored, FitInv, FileFits
  <2>3. Fits(Load(Empty))
    BY <2>2, EmptyTyped, LoadFits
  <2>4. mem'[p] = Load(Empty) /\ UNCHANGED <<json, dirs, unread>>
    BY <1>4 DEF Command, TuiStarts, Begins, TypeOK
  <2>5. Fits(mem[p])' /\ Fits(json)'
    BY <2>2, <2>3, <2>4 DEF Fits
  <2> QED BY <1>0, <1>4, <2>1, <2>5, FitsAlone DEF FileFits
<1>5. ASSUME NEW p \in Procs, Process(p) PROVE tidy
  BY <1>5 DEF Process, Command, TuiStarts, TuiRefresh, TuiCommand, TuiSelects,
     TuiEdit, TuiQuits, Declines, Presents, PresentFails, Attaches, Removes,
     SaveOpens, SaveFails, SaveWrites, Killed
<1>6. ASSUME NEW p \in Procs, Process(p), pc[p] = "off"
      PROVE  Command(p) \/ TuiStarts(p)
  BY <1>6 DEF Process, TuiRefresh, TuiCommand, TuiSelects, TuiEdit, TuiQuits,
     Declines, Presents, PresentFails, Attaches, Removes, SaveOpens,
     SaveFails, SaveWrites, Killed
<1>7. ASSUME NEW p \in Procs, Process(p) PROVE FitInv'
  BY <1>3, <1>4, <1>5, <1>6, <1>7
<1> QED BY <1>1, <1>2, <1>7 DEF Next, FitInv

(* When commands ran one at a time and undisturbed, registry.json says of  *)
(* every package what the manifest in its directory says, the packages     *)
(* excepted whose manifest the form of the TUI wrote or a folder brought.  *)
THEOREM ManifestsRegistered == Spec => []ManifestIsRegistered
<1>1. Init => FitInv
  BY DEF Init, FitInv, Accepted, MemFits, FileFits, Fits, Empty
<1>2. TypeOK /\ TidyInv /\ FitInv /\ [Next]_vars => FitInv'
  BY FitStep
<1>3. FitInv => ManifestIsRegistered
  BY DEF FitInv, FileFits, Stored, Fits, ManifestIsRegistered, Quiescent, Idle
<1> QED BY <1>1, <1>2, <1>3, RegistryTypeCorrect, Tidiness, PTL DEF Spec

-----------------------------------------------------------------------------
(* The refinement of PackageSet.  Until a command saves, the file says     *)
(* what the memory of the process said when the command began (SavesOne);  *)
(* when it saves, the two differ by what one command of PackageSet does.   *)
Became(e, m) ==
  \/ m = e
  \/ \E n \in Names : e[n] = None /\ m = [e EXCEPT ![n] = Plain]
  \/ \E n \in Names : e[n] # None /\ m = [e EXCEPT ![n] = None]
  \/ \E n \in Names, i \in Manifests :
       e[n] # None /\ m = [e EXCEPT ![n] = Merged(@, i)]
  \/ m = Empty

(* clear has taken out what it has not still to take out. *)
Clears(p) ==
  kind[p] = "clear" /\ \A n \in Names \ names[p] : mem[p][n] = None
Clearing == \A p \in Procs : pc[p] = "remove" => Clears(p)

SavesOf(p) ==
  /\ pc[p] \in {"menu", "refresh", "asked"} => mem[p] = json
  /\ pc[p] = "save" => Became(json, mem[p])
SavesOne == \A p \in Procs : SavesOf(p)

OneInv == Clearing /\ (tidy => SavesOne)

(* What is left to remove is forgotten package by package. *)
LEMMA RemovesLeaves ==
  ASSUME TypeOK, Accepted, Clearing, NEW p \in Procs, Removes(p)
  PROVE  /\ pc'[p] = "remove" => Clears(p)'
         /\ pc'[p] = "save" =>
              \/ mem'[p] = Empty
              \/ \E n \in Names : /\ pc[p] = "asked" /\ mem[p][n] # None
                                  /\ mem'[p] = [mem[p] EXCEPT ![n] = None]
<1>1. PICK n \in names[p] :
        /\ mem' = [mem EXCEPT ![p][n] = None]
        /\ names' = [names EXCEPT ![p] = @ \ {n}]
        /\ Goto(p, IF names[p] = {n} THEN "save" ELSE "remove")
  BY DEF Removes
<1>2. /\ pc[p] \in {"asked", "remove"} /\ kind[p] \in {"remove", "clear"}
      /\ kind' = kind /\ n \in Names /\ mem[p] \in Entries
  BY DEF Removes, TypeOK
<1>3. /\ mem'[p] = [mem[p] EXCEPT ![n] = None] /\ mem'[p] \in Entries
      /\ names'[p] = names[p] \ {n}
      /\ pc'[p] = IF names[p] = {n} THEN "save" ELSE "remove"
  BY <1>1, <1>2 DEF TypeOK, Goto, Entries
<1>4. CASE Clears(p)
  <2>1. kind'[p] = "clear" /\ \A k \in Names \ names'[p] : mem'[p][k] = None
    BY <1>2, <1>3, <1>4 DEF Clears, Entries
  <2>2. names[p] = {n} => mem'[p] = Empty
    BY <1>3, <2>1 DEF Entries, Empty
  <2> QED BY <1>3, <2>1, <2>2 DEF Clears
<1>5. CASE kind[p] = "clear" /\ pc[p] = "asked"
  BY <1>4, <1>5 DEF Accepted, Accepts, Clears, Known
<1>6. CASE kind[p] = "remove" /\ pc[p] = "asked"
  <2>1. names[p] = {n} /\ mem[p][n] # None
    BY <1>6 DEF Accepted, Accepts
  <2> QED BY <1>2, <1>3, <1>6, <2>1
<1> QED BY <1>2, <1>4, <1>5, <1>6 DEF Clearing

(* Only clear goes on removing. *)
LEMMA ClearingStep ==
  ASSUME TypeOK, Accepted, Clearing, [Next]_vars PROVE Clearing'
<1>1. CASE UNCHANGED vars \/ DaemonStarts
  BY <1>1 DEF vars, DaemonStarts, Clearing, Clears
<1>2. ASSUME NEW p \in Procs, Process(p) PROVE Clearing'
  <2>1. SUFFICES pc'[p] = "remove" => Clears(p)'
    <3>1. SUFFICES ASSUME NEW q \in Procs, pc'[q] = "remove" PROVE Clears(q)'
      BY DEF Clearing
    <3>2. CASE q # p
      BY <1>2, <3>1, <3>2, OnlyItself DEF Clearing, Clears
    <3> QED BY <2>1, <3>1, <3>2
  <2>2. CASE Removes(p)
    BY <2>2, RemovesLeaves
  <2>3. CASE Exits(p) \/ Returns(p)
    BY <2>3, ReturnsLeaves
  <2>4. CASE TuiQuits(p) \/ Declines(p) \/ PresentFails(p) \/ SaveFails(p)
             \/ SaveWrites(p) \/ Killed(p)
    BY <2>3, <2>4 DEF TuiQuits, Declines, PresentFails, SaveFails,
       SaveWrites, Killed
  <2>5. CASE Command(p) \/ TuiCommand(p)
    BY <2>5 DEF Command, TuiCommand, Begins, Goto, TypeOK
  <2>6. CASE TuiStarts(p) \/ TuiRefresh(p) \/ Presents(p) \/ SaveOpens(p)
    BY <2>6 DEF TuiStarts, TuiRefresh, Presents, SaveOpens, Goto, TypeOK
  <2>7. CASE TuiSelects(p) \/ TuiEdit(p)
    BY <2>7 DEF TuiSelects, TuiEdit
  <2>8. CASE Attaches(p)
    <3>1. Returns(p) \/ Goto(p, "save")
      BY <2>8 DEF Attaches
    <3> QED BY <2>3, <3>1 DEF Goto, TypeOK
  <2> QED BY <1>2, <2>2, <2>4, <2>5, <2>6, <2>7, <2>8 DEF Process
<1> QED BY <1>1, <1>2 DEF Next

(* Reading a file that parses into an empty memory, or into one that says  *)
(* the same, gives the file.                                               *)
LEMMA LoadIsFile ==
  ASSUME TypeOK, json # Torn, NEW m \in {Empty, json} PROVE Load(m) = json
<1>1. json \in [Names -> {None} \cup Entry]
  BY DEF TypeOK, Entries
<1>2. Load(m) = [n \in Names |-> IF json[n] # None THEN json[n] ELSE m[n]]
  BY DEF Load
<1>3. \A n \in Names : json[n] = None => m[n] = None
  BY DEF Empty
<1>4. \A n \in Names : Load(m)[n] = json[n]
  BY <1>2, <1>3
<1> QED BY <1>1, <1>2, <1>4

(* Each command, as it comes to save. *)
LEMMA SavesStep ==
  ASSUME TypeOK, TidyInv, Accepted, Clearing, SavesOne, tidy',
         NEW p \in Procs, pc[p] # "off", Process(p), tidy
  PROVE  SavesOf(p)'
<1>1. /\ mem[p] \in Entries
      /\ pc[p] \in {"menu", "refresh", "asked"} =>
           mem[p] = json /\ json # Torn /\ json \in Entries
  <2>1. \A q \in Procs \ {p} : pc[q] = "off"
    BY DEF TidyInv, OneRuns
  <2> QED BY <2>1 DEF TidyInv, FileAgrees, Stored, SavesOne, SavesOf, TypeOK
<1>2. ASSUME Returns(p) \/ Exits(p), json' = mem[p] PROVE SavesOf(p)'
  BY <1>2, ReturnsLeaves DEF SavesOf
<1>3. CASE TuiRefresh(p)
  <2>1. Load(mem[p]) = json
    BY <1>1, <1>3, LoadIsFile DEF TuiRefresh
  <2> QED BY <1>3, <2>1 DEF TuiRefresh, Goto, SavesOf, TypeOK
<1>4. CASE TuiCommand(p)
  <2>1. PICK k \in Kinds, ns \in SUBSET Names : Begins(p, mem[p], k, ns)
    BY <1>4 DEF TuiCommand
  <2>2. mem'[p] = mem[p] /\ pc'[p] = "asked" /\ json' = json /\ pc[p] = "menu"
    BY <1>4, <2>1 DEF Begins, Goto, TuiCommand, TypeOK
  <2> QED BY <1>1, <2>2 DEF SavesOf
<1>5. CASE TuiSelects(p) \/ TuiEdit(p)
  BY <1>1, <1>5 DEF TuiSelects, TuiEdit, SavesOf
<1>6. CASE TuiQuits(p) \/ Declines(p)
  BY <1>1, <1>2, <1>6 DEF TuiQuits, Declines
<1>7. CASE Presents(p)
  <2>1. PICK n \in names[p] : mem' = [mem EXCEPT ![p][n] = Plain]
    BY <1>7 DEF Presents
  <2>2. /\ pc[p] = "asked" /\ pc'[p] = "save" /\ json' = json
        /\ n \in Names /\ mem[p][n] = None
    BY <1>7 DEF Presents, Goto, TypeOK, Accepted, Accepts
  <2>3. mem'[p] = [mem[p] EXCEPT ![n] = Plain]
    BY <2>1 DEF TypeOK
  <2> QED BY <1>1, <2>2, <2>3 DEF SavesOf, Became
<1>8. CASE Attaches(p)
  <2>1. PICK n \in names[p] : \E m \in Manifests \cup {mem[p][n]} :
          \/ Returns(p)
          \/ mem' = [mem EXCEPT ![p][n] = Merged(@, m)] /\ Goto(p, "save")
    BY <1>8 DEF Attaches
  <2>2. /\ pc[p] = "asked" /\ json' = json /\ n \in Names /\ mem[p][n] # None
    BY <1>8 DEF Attaches, TypeOK, Accepted, Accepts
  <2>3. PICK m \in Manifests \cup {mem[p][n]} :
          \/ Returns(p)
          \/ mem' = [mem EXCEPT ![p][n] = Merged(@, m)] /\ Goto(p, "save")
    BY <2>1
  <2>4. CASE Returns(p)
    BY <1>1, <1>2, <2>2, <2>4
  <2>5. CASE mem' = [mem EXCEPT ![p][n] = Merged(@, m)] /\ Goto(p, "save")
    <3>1. pc'[p] = "save" /\ mem'[p] = [mem[p] EXCEPT ![n] = Merged(@, m)]
      BY <2>5 DEF Goto, TypeOK
    <3>2. m = mem[p][n] => mem'[p] = mem[p]
      <4>1. mem[p][n] \in Entry /\ mem[p][n] \in Written
        BY <1>1, <2>2, PlainTyped DEF Entries
      <4>2. m = mem[p][n] => Merged(mem[p][n], m) = mem[p][n]
        BY <4>1, MergedTyped
      <4> QED BY <1>1, <3>1, <4>2 DEF Entries
    <3>3. Became(json, mem'[p])
      BY <1>1, <2>2, <2>3, <3>1, <3>2 DEF Became
    <3> QED BY <2>2, <3>1, <3>3 DEF SavesOf
  <2> QED BY <2>3, <2>4, <2>5
<1>9. CASE Removes(p)
  <2>1. pc'[p] \in {"save", "remove"} /\ json' = json
    BY <1>9 DEF Removes, Goto, TypeOK
  <2>2. pc'[p] = "save" => Became(json, mem'[p])
    BY <1>1, <1>9, RemovesLeaves DEF Became
  <2> QED BY <2>1, <2>2 DEF SavesOf
<1>10. CASE SaveOpens(p)
  BY <1>10 DEF SaveOpens, Goto, SavesOf, TypeOK
<1>11. CASE SaveWrites(p)
  BY <1>2, <1>11 DEF SaveWrites
<1>12. ~PresentFails(p) /\ ~SaveFails(p) /\ ~Killed(p)
  BY DEF PresentFails, SaveFails, Killed
<1>13. ~Command(p) /\ ~TuiStarts(p)
  BY DEF Command, TuiStarts
<1> QED BY <1>3, <1>4, <1>5, <1>6, <1>7, <1>8, <1>9, <1>10, <1>11, <1>12,
           <1>13 DEF Process

(* A process that starts has what the file has. *)
LEMMA StartsWithFile ==
  ASSUME TypeOK, json # Torn, NEW p \in Procs, Command(p) \/ TuiStarts(p)
  PROVE  SavesOf(p)'
<1>1. Load(Empty) = json
  BY LoadIsFile
<1>2. mem'[p] = Load(Empty) /\ json' = json /\ pc'[p] \in {"asked", "menu"}
  BY DEF Command, TuiStarts, Begins, Goto, TypeOK
<1> QED BY <1>1, <1>2 DEF SavesOf

(* History: an undisturbed step follows undisturbed ones, and the process  *)
(* that takes it runs alone.                                               *)
LEMMA TidySteps ==
  ASSUME NEW p \in Procs, TidyInv, Process(p), tidy'
  PROVE  /\ tidy
         /\ \A q \in Procs \ {p} : pc[q] = "off"
         /\ pc[p] # "off" \/ Command(p) \/ TuiStarts(p)
<1>1. tidy
  BY DEF Process, Command, TuiStarts, TuiRefresh, TuiCommand, TuiSelects,
     TuiEdit, TuiQuits, Declines, Presents, PresentFails, Attaches, Removes,
     SaveOpens, SaveFails, SaveWrites, Killed
<1>2. pc[p] # "off" \/ Command(p) \/ TuiStarts(p)
  BY DEF Process, TuiRefresh, TuiCommand, TuiSelects, TuiEdit, TuiQuits,
     Declines, Presents, PresentFails, Attaches, Removes, SaveOpens,
     SaveFails, SaveWrites, Killed
<1>3. Command(p) \/ TuiStarts(p) => \A q \in Procs : pc[q] = "off"
  BY DEF Command, TuiStarts, Running
<1> QED BY <1>1, <1>2, <1>3 DEF TidyInv, OneRuns

(* The invariant is inductive. *)
LEMMA OneStep ==
  ASSUME TypeOK, TidyInv, Accepted, OneInv, [Next]_vars PROVE OneInv'
<1>0. Clearing'
  BY ClearingStep DEF OneInv
<1> SUFFICES ASSUME tidy' PROVE SavesOne'
  BY <1>0 DEF OneInv
<1>1. CASE UNCHANGED vars \/ DaemonStarts
  BY <1>1 DEF vars, DaemonStarts, OneInv, SavesOne, SavesOf
<1>2. ASSUME NEW p \in Procs, Process(p) PROVE SavesOne'
  <2>1. /\ tidy /\ \A q \in Procs \ {p} : pc[q] = "off"
        /\ pc[p] # "off" \/ Command(p) \/ TuiStarts(p)
    BY <1>2, TidySteps
  <2>2. SavesOf(p)'
    <3>1. CASE pc[p] # "off"
      BY <1>2, <2>1, <3>1, SavesStep DEF OneInv
    <3>2. CASE Command(p) \/ TuiStarts(p)
      <4>1. pc[p] = "off"
        BY <3>2 DEF Command, TuiStarts
      <4>2. json # Torn
        BY <2>1, <4>1 DEF TidyInv, FileAgrees, Stored
      <4> QED BY <3>2, <4>2, StartsWithFile
    <3> QED BY <2>1, <3>1, <3>2
  <2>3. ASSUME NEW q \in Procs, q # p PROVE SavesOf(q)'
    BY <1>2, <2>1, <2>3, OnlyItself DEF SavesOf
  <2> QED BY <2>2, <2>3 DEF SavesOne
<1> QED BY <1>1, <1>2 DEF Next

(* What the operator sees while p is the only process that may write. *)
LEMMA CommittedAlone ==
  ASSUME NEW p \in Procs, \A q \in Procs \ {p} : pc[q] # "write"
  PROVE  Committed = IF pc[p] = "write" THEN mem[p] ELSE json
<1>1. CASE pc[p] = "write"
  <2>1. (CHOOSE q \in Procs : pc[q] = "write") = p
    BY <1>1
  <2> QED BY <1>1, <2>1 DEF Committed
<1>2. CASE pc[p] # "write"
  BY <1>2 DEF Committed
<1> QED BY <1>1, <1>2

LEMMA CommittedAloneNext ==
  ASSUME NEW p \in Procs, \A q \in Procs \ {p} : pc'[q] # "write"
  PROVE  Committed' = IF pc'[p] = "write" THEN mem'[p] ELSE json'
<1>1. CASE pc'[p] = "write"
  <2>1. (CHOOSE q \in Procs : pc'[q] = "write") = p
    BY <1>1
  <2> QED BY <1>1, <2>1 DEF Committed
<1>2. CASE pc'[p] # "write"
  BY <1>2 DEF Committed
<1> QED BY <1>1, <1>2

(* What a save may bring is a command of PackageSet. *)
LEMMA BecameNext ==
  ASSUME Became(Committed, Committed')
  PROVE  Catalogue!Next \/ UNCHANGED Committed
BY DEF Became, Catalogue!Next, Catalogue!Present, Catalogue!Remove,
   Catalogue!Attach, Catalogue!Clear, Empty, Merged

(* Every undisturbed step is one of PackageSet, or none. *)
LEMMA CatalogueStep ==
  ASSUME TypeOK, TidyInv, OneInv, [Next]_vars
  PROVE  [tidy' => Catalogue!Next]_Committed
<1> SUFFICES ASSUME tidy' PROVE Catalogue!Next \/ UNCHANGED Committed
  OBVIOUS
<1>1. CASE UNCHANGED vars \/ DaemonStarts
  BY <1>1 DEF vars, DaemonStarts, Committed
<1>2. ASSUME NEW p \in Procs, Process(p)
      PROVE  Catalogue!Next \/ UNCHANGED Committed
  <2>1. tidy /\ \A q \in Procs \ {p} : pc[q] = "off" /\ pc'[q] = "off"
    BY <1>2, TidySteps, OnlyItself
  <2>2. /\ Committed = IF pc[p] = "write" THEN mem[p] ELSE json
        /\ Committed' = IF pc'[p] = "write" THEN mem'[p] ELSE json'
    BY <2>1, CommittedAlone, CommittedAloneNext
  <2>3. CASE SaveOpens(p)
    <3>1. pc[p] = "save" /\ pc'[p] = "write" /\ mem' = mem
      BY <2>3 DEF SaveOpens, Goto, TypeOK
    <3>2. Became(json, mem[p])
      BY <2>1, <3>1 DEF OneInv, SavesOne, SavesOf
    <3> QED BY <2>2, <3>1, <3>2, BecameNext
  <2>4. CASE SaveWrites(p)
    <3>1. pc[p] = "write" /\ json' = mem[p] /\ pc'[p] # "write"
      BY <2>4, ReturnsLeaves DEF SaveWrites
    <3> QED BY <2>2, <3>1
  <2>5. CASE ~SaveOpens(p) /\ ~SaveWrites(p)
    <3>1. pc[p] # "write" /\ json' = json
      BY <1>2, <2>5 DEF Process, Command, TuiStarts, TuiRefresh, TuiCommand,
         TuiSelects, TuiEdit, TuiQuits, Declines, Presents, PresentFails,
         Attaches, Removes, SaveFails, Killed, Begins
    <3>2. pc'[p] # "write"
      <4>1. CASE Returns(p) \/ Exits(p)
        BY <4>1, ReturnsLeaves
      <4>2. CASE TuiQuits(p) \/ Declines(p) \/ PresentFails(p)
                 \/ SaveFails(p) \/ Killed(p)
        BY <4>1, <4>2 DEF TuiQuits, Declines, PresentFails, SaveFails, Killed
      <4>3. CASE Command(p) \/ TuiCommand(p)
        BY <4>3 DEF Command, TuiCommand, Begins, Goto, TypeOK
      <4>4. CASE TuiStarts(p) \/ TuiRefresh(p) \/ Presents(p) \/ Removes(p)
        BY <4>4 DEF TuiStarts, TuiRefresh, Presents, Removes, Goto, TypeOK
      <4>5. CASE TuiSelects(p) \/ TuiEdit(p)
        BY <3>1, <4>5 DEF TuiSelects, TuiEdit
      <4>6. CASE Attaches(p)
        <5>1. Returns(p) \/ Goto(p, "save")
          BY <4>6 DEF Attaches
        <5> QED BY <4>1, <5>1 DEF Goto, TypeOK
      <4> QED BY <1>2, <2>5, <4>2, <4>3, <4>4, <4>5, <4>6 DEF Process
    <3> QED BY <2>2, <3>1, <3>2
  <2> QED BY <2>3, <2>4, <2>5
<1> QED BY <1>1, <1>2 DEF Next

(* Commands that run one at a time, undisturbed, change the catalogue one  *)
(* whole command at a time, each when it opens registry.json to write.     *)
THEOREM CommandsAreWhole == Spec => ImplementsPackageSet
<1>1. Init => Accepted /\ OneInv
  BY DEF Init, Accepted, OneInv, Clearing, SavesOne, SavesOf
<1>2. TypeOK /\ TidyInv /\ Accepted /\ OneInv /\ [Next]_vars =>
        Accepted' /\ OneInv'
  BY AskedStep, OneStep
<1>3. Init => Catalogue!Init
  BY DEF Init, Catalogue!Init, Committed, Empty
<1>4. TypeOK /\ TidyInv /\ OneInv /\ [Next]_vars =>
        [tidy' => Catalogue!Next]_Committed
  BY CatalogueStep
<1> QED BY <1>1, <1>2, <1>3, <1>4, RegistryTypeCorrect, Tidiness, PTL
        DEF Spec, ImplementsPackageSet

=============================================================================
