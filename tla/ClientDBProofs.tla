--------------------------- MODULE ClientDBProofs ---------------------------
(***************************************************************************)
(* What a client machine has installed and which repositories were added   *)
(* is what its files say when nothing is under way, and so is what the     *)
(* last scan found, for any number of packages, servers, repositories,     *)
(* objects and commands.                                                   *)
(***************************************************************************)
EXTENDS ClientDB, FiniteSetTheorems, SequenceTheorems, TLAPS

Labels == ClientSteps \cup TuiSteps

-----------------------------------------------------------------------------
(* Databases.                                                              *)

LEMMA Fields ==
  ASSUME NEW m \in Databases
  PROVE  /\ m.pkgs \in [Names -> Origins] /\ m.srvs \subseteq Servers
         /\ m.repos \subseteq Repos /\ m.inst \subseteq Names
         /\ m = [pkgs |-> m.pkgs, srvs |-> m.srvs, repos |-> m.repos, inst |-> m.inst]
BY DEF Databases

LEMMA EmptyTyped == Empty \in Databases
BY DEF Empty, Databases, Origins

(* One map replaced by another of its kind. *)
LEMMA FieldSet ==
  ASSUME NEW m \in Databases
  PROVE  /\ \A x \in [Names -> Origins] : [m EXCEPT !.pkgs = x] \in Databases
         /\ \A x \in SUBSET Servers : [m EXCEPT !.srvs = x] \in Databases
         /\ \A x \in SUBSET Repos : [m EXCEPT !.repos = x] \in Databases
         /\ \A x \in SUBSET Names : [m EXCEPT !.inst = x] \in Databases
BY DEF Databases

LEMMA FileNames ==
  /\ Len(Files) = 4
  /\ Files[1] = "pkgs" /\ Files[2] = "srvs" /\ Files[3] = "repos" /\ Files[4] = "inst"
BY DEF Files

LEMMA UpsertTyped ==
  ASSUME NEW m \in Databases, NEW s \in Sources, TypeOK
  PROVE  /\ Upsert(m, s) \in Databases
         /\ Upsert(m, s).srvs = m.srvs /\ Upsert(m, s).repos = m.repos
         /\ Upsert(m, s).inst = m.inst
<1>1. [n \in Names |-> IF n \in offers[s] THEN s ELSE m.pkgs[n]] \in [Names -> Origins]
  BY Fields DEF Origins
<1> QED BY <1>1, FieldSet, Fields DEF Upsert

LEMMA KnowsTyped ==
  ASSUME NEW m \in Databases, NEW s \in Servers
  PROVE  /\ Knows(m, s) \in Databases
         /\ Knows(m, s).pkgs = m.pkgs /\ Knows(m, s).repos = m.repos
         /\ Knows(m, s).inst = m.inst
BY FieldSet, Fields DEF Knows

LEMMA DropsTyped ==
  ASSUME NEW m \in Databases, NEW s \in Servers
  PROVE  /\ Drops(m, s) \in Databases
         /\ Drops(m, s).srvs = m.srvs /\ Drops(m, s).repos = m.repos
         /\ Drops(m, s).inst = m.inst
<1>1. [n \in Names |-> IF m.pkgs[n] = s THEN None ELSE m.pkgs[n]] \in [Names -> Origins]
  BY Fields DEF Origins
<1> QED BY <1>1, FieldSet, Fields DEF Drops

LEMMA AddsTyped ==
  ASSUME NEW m \in Databases, NEW r \in Repos, TypeOK
  PROVE  /\ Adds(m, r) \in Databases
         /\ Adds(m, r).srvs = m.srvs /\ Adds(m, r).repos = m.repos \cup {r}
         /\ Adds(m, r).inst = m.inst
<1>1. /\ Upsert(m, r) \in Databases
      /\ Upsert(m, r).srvs = m.srvs /\ Upsert(m, r).inst = m.inst
  BY UpsertTyped DEF Sources
<1>2. m.repos \cup {r} \in SUBSET Repos
  BY Fields
<1> QED BY <1>1, <1>2, FieldSet, Fields DEF Adds

LEMMA MarksTyped ==
  ASSUME NEW m \in Databases, NEW n \in Names
  PROVE  /\ Marks(m, n) \in Databases
         /\ Marks(m, n).srvs = m.srvs /\ Marks(m, n).repos = m.repos
         /\ Marks(m, n).inst = m.inst \cup {n}
<1> DEFINE w == [m EXCEPT !.inst = m.inst \cup {n}]
<1>1. /\ w \in Databases
      /\ w.pkgs = m.pkgs /\ w.srvs = m.srvs /\ w.repos = m.repos
      /\ w.inst = m.inst \cup {n}
  BY FieldSet, Fields
<1>2. Marks(m, n) = [w EXCEPT !.pkgs = [w.pkgs EXCEPT ![n] = Nowhere]]
  BY DEF Marks
<1>3. [w.pkgs EXCEPT ![n] = Nowhere] \in [Names -> Origins]
  BY <1>1, Fields DEF Origins
<1> HIDE DEF w
<1> QED BY <1>1, <1>2, <1>3, FieldSet, Fields

(* A file or a map replaced by another of its kind. *)
LEMMA AnyFieldSet ==
  ASSUME NEW m \in Databases, NEW d \in Databases, NEW i \in 1..4,
         NEW r, r = [m EXCEPT ![Files[i]] = d[Files[i]]]
  PROVE  /\ r \in Databases
         /\ \A j \in 1..4 :
              r[Files[j]] = IF j = i THEN d[Files[i]] ELSE m[Files[j]]
<1>1. CASE i = 1
  BY <1>1, FileNames, Fields DEF Databases
<1>2. CASE i = 2
  BY <1>2, FileNames, Fields DEF Databases
<1>3. CASE i = 3
  BY <1>3, FileNames, Fields DEF Databases
<1>4. CASE i = 4
  BY <1>4, FileNames, Fields DEF Databases
<1> QED BY <1>1, <1>2, <1>3, <1>4

-----------------------------------------------------------------------------
(* What a step leaves to do.                                               *)

(* o goes on with q and then with the rest. *)
LEMMA ThenSteps ==
  ASSUME TypeOK, NEW o \in Objects, steps[o] # <<>>, NEW q \in Seq(Labels),
         Then(o, q)
  PROVE  /\ steps' \in [Objects -> Seq(Labels)]
         /\ Len(steps'[o]) = Len(q) + Len(steps[o]) - 1
         /\ \A i \in 1..Len(steps'[o]) :
              steps'[o][i] = IF i <= Len(q) THEN q[i] ELSE steps[o][i - Len(q) + 1]
         /\ \A p \in Objects \ {o} : steps'[p] = steps[p]
         /\ steps' = [steps EXCEPT ![o] = steps'[o]]
<1> DEFINE r == Tail(steps[o])
<1>1. steps \in [Objects -> Seq(Labels)] /\ steps[o] \in Seq(Labels)
  BY DEF TypeOK, Labels
<1>2. r \in Seq(Labels) /\ Len(r) = Len(steps[o]) - 1
      /\ \A i \in 1..Len(r) : r[i] = steps[o][i + 1]
  BY <1>1
<1>3. steps' = [steps EXCEPT ![o] = q \o r]
  BY DEF Then
<1> HIDE DEF r
<1>4. /\ q \o r \in Seq(Labels) /\ Len(q \o r) = Len(q) + Len(r)
      /\ \A i \in 1..Len(q \o r) :
           (q \o r)[i] = IF i <= Len(q) THEN q[i] ELSE r[i - Len(q)]
  <2>1. q \o r \in Seq(Labels) /\ Len(q \o r) = Len(q) + Len(r)
    BY <1>2, ConcatProperties
  <2>2. ASSUME NEW i \in 1..Len(q \o r)
        PROVE  (q \o r)[i] = IF i <= Len(q) THEN q[i] ELSE r[i - Len(q)]
    <3>1. i \in 1..(Len(q) + Len(r))
      BY <2>1
    <3> QED BY <1>2, <3>1
  <2> QED BY <2>1, <2>2
<1>5. steps'[o] = q \o r
  BY <1>1, <1>3
<1>6. \A i \in 1..Len(q \o r) : i > Len(q) =>
        i - Len(q) \in 1..Len(r) /\ (i - Len(q)) + 1 = i - Len(q) + 1
  BY <1>2, <1>4
<1>7. \A i \in 1..Len(steps'[o]) :
        steps'[o][i] = IF i <= Len(q) THEN q[i] ELSE steps[o][i - Len(q) + 1]
  BY <1>2, <1>4, <1>5, <1>6
<1> QED BY <1>1, <1>2, <1>3, <1>4, <1>5, <1>7

(* The plans there are. *)
LEMMA Plans ==
  /\ <<>> \in Seq(Labels)
  /\ \A x \in Labels : <<x>> \in Seq(Labels) /\ Len(<<x>>) = 1 /\ <<x>>[1] = x
  /\ \A x, y \in Labels :
       /\ <<x, y>> \in Seq(Labels) /\ Len(<<x, y>>) = 2
       /\ <<x, y>>[1] = x /\ <<x, y>>[2] = y
  /\ \A x, y, z \in Labels :
       /\ <<x, y, z>> \in Seq(Labels) /\ Len(<<x, y, z>>) = 3
       /\ <<x, y, z>>[1] = x /\ <<x, y, z>>[2] = y /\ <<x, y, z>>[3] = z
  /\ \A x, y, z, w \in Labels :
       /\ <<x, y, z, w>> \in Seq(Labels) /\ Len(<<x, y, z, w>>) = 4
       /\ <<x, y, z, w>>[1] = x /\ <<x, y, z, w>>[2] = y
       /\ <<x, y, z, w>>[3] = z /\ <<x, y, z, w>>[4] = w
<1>1. <<>> \in Seq(Labels)
  OBVIOUS
<1>2. ASSUME NEW x \in Labels
      PROVE  <<x>> \in Seq(Labels) /\ Len(<<x>>) = 1 /\ <<x>>[1] = x
  OBVIOUS
<1>3. ASSUME NEW x \in Labels, NEW y \in Labels
      PROVE  /\ <<x, y>> \in Seq(Labels) /\ Len(<<x, y>>) = 2
             /\ <<x, y>>[1] = x /\ <<x, y>>[2] = y
  OBVIOUS
<1>4. ASSUME NEW x \in Labels, NEW y \in Labels, NEW z \in Labels
      PROVE  /\ <<x, y, z>> \in Seq(Labels) /\ Len(<<x, y, z>>) = 3
             /\ <<x, y, z>>[1] = x /\ <<x, y, z>>[2] = y /\ <<x, y, z>>[3] = z
  OBVIOUS
<1>5. ASSUME NEW x \in Labels, NEW y \in Labels, NEW z \in Labels, NEW w \in Labels
      PROVE  /\ <<x, y, z, w>> \in Seq(Labels) /\ Len(<<x, y, z, w>>) = 4
             /\ <<x, y, z, w>>[1] = x /\ <<x, y, z, w>>[2] = y
             /\ <<x, y, z, w>>[3] = z /\ <<x, y, z, w>>[4] = w
  OBVIOUS
<1> QED BY <1>1, <1>2, <1>3, <1>4, <1>5

LEMMA Upto ==
  1..1 = {1} /\ 1..2 = {1, 2} /\ 1..3 = {1, 2, 3} /\ 1..4 = {1, 2, 3, 4}
OBVIOUS

(* load and save go through the files one by one. *)
LEMMA AdvanceSteps ==
  ASSUME TypeOK, NEW o \in Objects, NEW l \in {"load", "save"}, Advance(o, l)
  PROVE  /\ \E q \in {<<>>, <<l>>} :
              /\ Then(o, q)
              /\ q = <<>> => at[o] = 4 /\ at'[o] = 1
              /\ q # <<>> => at[o] < 4 /\ at'[o] = at[o] + 1
         /\ at' \in [Objects -> 1..4]
         /\ \A p \in Objects \ {o} : at'[p] = at[p]
<1>1. at \in [Objects -> 1..4]
  BY FileNames DEF TypeOK
<1>2. CASE at[o] = 4
  BY <1>1, <1>2, FileNames DEF Advance
<1>3. CASE at[o] # 4
  BY <1>1, <1>3, FileNames DEF Advance
<1> QED BY <1>2, <1>3

LEMMA LoadEffect ==
  ASSUME TypeOK, NEW o \in Objects, Load(o)
  PROVE  /\ mem' \in [Objects -> Databases]
         /\ \A p \in Objects \ {o} : mem'[p] = mem[p]
         /\ \A j \in {3, 4} : mem'[o][Files[j]] =
              IF j = at[o] THEN mem[o][Files[j]] \cup file[Files[j]]
                           ELSE mem[o][Files[j]]
<1> DEFINE d == [pkgs |-> Over(file.pkgs, mem[o].pkgs),
                 srvs |-> mem[o].srvs \cup file.srvs,
                 repos |-> mem[o].repos \cup file.repos,
                 inst |-> mem[o].inst \cup file.inst]
<1>1. mem[o] \in Databases /\ file \in Databases /\ at[o] \in 1..4
  BY FileNames DEF TypeOK
<1>2. Over(file.pkgs, mem[o].pkgs) \in [Names -> Origins]
  BY <1>1, Fields DEF Over
<1>3. d \in Databases
  BY <1>1, <1>2, Fields DEF Databases
<1>4. d[Files[at[o]]] = IF Files[at[o]] = "pkgs"
        THEN Over(file[Files[at[o]]], mem[o][Files[at[o]]])
        ELSE mem[o][Files[at[o]]] \cup file[Files[at[o]]]
  <2>1. CASE at[o] = 1
    BY <2>1, FileNames
  <2>2. CASE at[o] = 2
    BY <2>2, FileNames
  <2>3. CASE at[o] = 3
    BY <2>3, FileNames
  <2>4. CASE at[o] = 4
    BY <2>4, FileNames
  <2> QED BY <1>1, <2>1, <2>2, <2>3, <2>4
<1>5. d[Files[3]] = mem[o][Files[3]] \cup file[Files[3]]
      /\ d[Files[4]] = mem[o][Files[4]] \cup file[Files[4]]
  BY FileNames
<1> HIDE DEF d
<1>6. mem' = [mem EXCEPT ![o] = [mem[o] EXCEPT ![Files[at[o]]] = d[Files[at[o]]]]]
  BY <1>1, <1>4 DEF Load, TypeOK
<1>7. mem'[o] = [mem[o] EXCEPT ![Files[at[o]]] = d[Files[at[o]]]]
      /\ \A p \in Objects \ {o} : mem'[p] = mem[p]
  BY <1>6 DEF TypeOK
<1>8. mem'[o] \in Databases
      /\ \A j \in 1..4 : mem'[o][Files[j]]
                          = IF j = at[o] THEN d[Files[at[o]]] ELSE mem[o][Files[j]]
  BY <1>1, <1>3, <1>7, AnyFieldSet
<1>9. mem' \in [Objects -> Databases]
  <2>1. PICK e \in Databases : mem' = [mem EXCEPT ![o] = e]
    BY <1>6, <1>7, <1>8
  <2> QED BY <2>1 DEF TypeOK
<1>10. ASSUME NEW j \in {3, 4}
       PROVE  mem'[o][Files[j]] = IF j = at[o] THEN mem[o][Files[j]] \cup file[Files[j]]
                                              ELSE mem[o][Files[j]]
  <2>1. mem'[o][Files[j]] = IF j = at[o] THEN d[Files[at[o]]] ELSE mem[o][Files[j]]
    BY <1>8
  <2>2. d[Files[j]] = mem[o][Files[j]] \cup file[Files[j]]
    BY <1>5
  <2> QED BY <2>1, <2>2
<1> QED BY <1>7, <1>9, <1>10

LEMMA SaveEffect ==
  ASSUME TypeOK, NEW o \in Objects, SaveOpens(o) \/ SaveWrites(o)
  PROVE  /\ file' \in Databases /\ mem' = mem
         /\ \A j \in {3, 4} : j # at[o] => file'[Files[j]] = file[Files[j]]
         /\ SaveWrites(o) => \A j \in {3, 4} :
              j = at[o] => file'[Files[j]] = mem[o][Files[j]]
<1>1. mem[o] \in Databases /\ file \in Databases /\ at[o] \in 1..4
  BY FileNames DEF TypeOK
<1>2. PICK d \in {Empty, mem[o]} :
        file' = [file EXCEPT ![Files[at[o]]] = d[Files[at[o]]]]
        /\ (SaveWrites(o) => d = mem[o])
  <2>1. CASE SaveWrites(o)
    BY <2>1 DEF SaveWrites
  <2>2. CASE ~SaveWrites(o)
    BY <2>2 DEF SaveOpens
  <2> QED BY <2>1, <2>2
<1>3. d \in Databases
  BY <1>1, EmptyTyped
<1>4. /\ file' \in Databases
      /\ \A j \in 1..4 : file'[Files[j]] =
           IF j = at[o] THEN d[Files[at[o]]] ELSE file[Files[j]]
  <2> DEFINE i == at[o]
  <2>1. /\ file' = [file EXCEPT ![Files[i]] = d[Files[i]]]
        /\ file \in Databases /\ d \in Databases /\ i \in 1..4
    BY <1>1, <1>2, <1>3
  <2> HIDE DEF i
  <2>2. file' \in Databases
    BY <2>1, AnyFieldSet
  <2>3. \A j \in 1..4 : file'[Files[j]] = IF j = i THEN d[Files[i]] ELSE file[Files[j]]
    BY <2>1, AnyFieldSet
  <2> QED BY <2>2, <2>3 DEF i
<1>5. mem' = mem
  BY DEF SaveOpens, SaveWrites
<1> QED BY <1>1, <1>2, <1>4, <1>5

-----------------------------------------------------------------------------
(* Types.                                                                  *)

LEMMA TypeObject ==
  ASSUME TypeOK, NEW o \in Objects, ObjectStep(o) PROVE TypeOK'
<1>1. CASE Load(o)
  <2>1. PICK q \in {<<>>, <<"load">>} : Then(o, q)
    BY <1>1, AdvanceSteps DEF Load
  <2>2. q \in Seq(Labels)
    BY <2>1, Plans DEF Labels, ClientSteps
  <2>3. steps' \in [Objects -> Seq(Labels)]
    BY <1>1, <2>1, <2>2, ThenSteps DEF Load, At
  <2>4. at' \in [Objects -> 1..4]
    BY <1>1, AdvanceSteps DEF Load
  <2>5. mem' \in [Objects -> Databases]
    BY <1>1, LoadEffect
  <2> QED BY <1>1, <2>3, <2>4, <2>5, FileNames DEF Load, TypeOK, Labels
<1>2. CASE SaveOpens(o)
  <2>1. Then(o, <<"write">>) /\ steps[o] # <<>>
    BY <1>2 DEF SaveOpens, At
  <2>2. <<"write">> \in Seq(Labels)
    BY DEF Labels, ClientSteps
  <2>3. steps' \in [Objects -> Seq(Labels)]
    BY <2>1, <2>2, ThenSteps
  <2>4. file' \in Databases
    BY <1>2, SaveEffect
  <2> QED BY <1>2, <2>3, <2>4 DEF SaveOpens, TypeOK, Labels
<1>3. CASE SaveWrites(o)
  <2>1. PICK q \in {<<>>, <<"save">>} : Then(o, q)
    BY <1>3, AdvanceSteps DEF SaveWrites
  <2>2. q \in Seq(Labels)
    BY <2>1, Plans DEF Labels, ClientSteps
  <2>3. steps' \in [Objects -> Seq(Labels)]
    BY <1>3, <2>1, <2>2, ThenSteps DEF SaveWrites, At
  <2>4. at' \in [Objects -> 1..4]
    BY <1>3, AdvanceSteps DEF SaveWrites
  <2>5. file' \in Databases
    BY <1>3, SaveEffect
  <2> QED BY <1>3, <2>3, <2>4, <2>5, FileNames DEF SaveWrites, TypeOK, Labels
<1>4. CASE Asked(o)
  <2>1. Then(o, <<>>) /\ steps[o] # <<>>
    BY <1>4 DEF Asked, At
  <2>2. steps' \in [Objects -> Seq(Labels)]
    BY <2>1, Plans, ThenSteps
  <2> QED BY <1>4, <2>2 DEF Asked, TypeOK, Labels
<1>5. CASE ListsRepos(o)
  <2>1. PICK q \in {<<>>, <<"fetch", "save">>} : Then(o, q)
    BY <1>5 DEF ListsRepos
  <2>2. q \in Seq(Labels)
    <3>1. <<>> \in Seq(Labels) /\ <<"fetch", "save">> \in Seq(Labels)
      BY Plans DEF Labels, ClientSteps
    <3> QED BY <2>1, <3>1
  <2>3. steps' \in [Objects -> Seq(Labels)]
    BY <1>5, <2>1, <2>2, ThenSteps DEF ListsRepos, At
  <2>4. mem[o].repos \subseteq Sources
    BY Fields DEF TypeOK, Sources
  <2>5. todo' \in [Objects -> SUBSET Sources]
    BY <1>5, <2>4 DEF ListsRepos, TypeOK
  <2> QED BY <1>5, <2>3, <2>5 DEF ListsRepos, TypeOK, Labels
<1>6. CASE FetchesIndex(o)
  <2>1. PICK r \in todo[o] :
          /\ todo' = [todo EXCEPT ![o] = @ \ {r}]
          /\ mem' = mem \/ mem' = [mem EXCEPT ![o] = Upsert(mem[o], r)]
    BY <1>6 DEF FetchesIndex, TypeOK
  <2>2. Upsert(mem[o], r) \in Databases
    BY UpsertTyped DEF TypeOK
  <2>3. mem' \in [Objects -> Databases] /\ todo' \in [Objects -> SUBSET Sources]
    BY <2>1, <2>2 DEF TypeOK
  <2> QED BY <1>6, <2>3 DEF FetchesIndex, TypeOK
<1> QED BY <1>1, <1>2, <1>3, <1>4, <1>5, <1>6 DEF ObjectStep

(* The arguments of a command that is at work. *)
LEMMA ArgTyped ==
  ASSUME TypeOK, StepsInv, NEW o \in Objects, steps[o] # <<>>
  PROVE  /\ steps[o] \in Seq(Labels) /\ Len(steps[o]) > 0 /\ 1 \in 1..Len(steps[o])
         /\ Head(steps[o]) = steps[o][1]
         /\ steps[o][1] \in {"install", "download", "get_install", "get_download"}
              => arg[o] \in Names
         /\ steps[o][1] \in {"addrepo", "removerepo"} => arg[o] \in Repos
         /\ steps[o][1] \in {"end", "menu"} <=> Len(steps[o]) = 1
<1>1. steps[o] \in Seq(Labels)
  BY DEF TypeOK, Labels
<1>2. Len(steps[o]) > 0 /\ 1 \in 1..Len(steps[o]) /\ Head(steps[o]) = steps[o][1]
  BY <1>1, EmptySeq
<1>3. \A i \in 1..Len(steps[o]) : steps[o][i] \in {"end", "menu"} <=> i = Len(steps[o])
  BY DEF StepsInv
<1>4. /\ steps[o][1] \in {"install", "download", "get_install", "get_download"}
           => arg[o] \in Names
      /\ steps[o][1] \in {"addrepo", "removerepo"} => arg[o] \in Repos
  BY <1>2 DEF StepsInv
<1> QED BY <1>1, <1>2, <1>3, <1>4

LEMMA TypeClient ==
  ASSUME TypeOK, StepsInv, CallInv, NEW c \in Clients, ClientStep(c)
  PROVE  TypeOK'
<1> USE DEF Objects
<1>1. CASE Command(c)
  <2>1. PICK k \in Cmds : \E a \in Arguments(k) :
          /\ steps' = [steps EXCEPT ![c] = Life(k)]
          /\ arg' = [arg EXCEPT ![c] = a]
    BY <1>1 DEF Command
  <2>2. Life(k) \in Seq(Labels)
    BY CmdsAssumption DEF Life, Labels, ClientSteps
  <2>3. Arguments(k) \subseteq Names \cup Repos \cup {None}
    BY DEF Arguments
  <2>4. steps' \in [Objects -> Seq(Labels)]
        /\ arg' \in [Objects -> Names \cup Repos \cup {None}]
    BY <2>1, <2>2, <2>3 DEF TypeOK, Labels
  <2>5. rounds' \in 0..MaxRounds
    BY <1>1, CmdsAssumption DEF Command, Begins, TypeOK
  <2> QED BY <1>1, <2>4, <2>5 DEF Command, TypeOK, Labels
<1>2. CASE Ends(c)
  <2>1. steps' \in [Objects -> Seq(Labels)]
    <3>1. ASSUME NEW o \in Objects PROVE steps'[o] \in Seq(Labels)
      <4>1. steps[o] \in Seq(Labels)
        BY DEF TypeOK, Labels
      <4>2. CASE o # c /\ o = caller[c]
        <5>1. steps'[o] = Tail(steps[o])
          BY <1>2, <4>2 DEF Ends
        <5>2. steps[o] # <<>>
          BY <4>2, NamesAssumption DEF CallInv
        <5> QED BY <4>1, <5>1, <5>2, HeadTailProperties
      <4>3. CASE o = c \/ o # caller[c]
        BY <1>2, <4>1, <4>3 DEF Ends
      <4> QED BY <4>2, <4>3
    <3>2. steps' = [o \in Objects |-> steps'[o]]
      BY <1>2 DEF Ends
    <3> QED BY <3>1, <3>2
  <2>2. mem' \in [Objects -> Databases]
    BY <1>2, EmptyTyped DEF Ends, TypeOK
  <2> QED BY <1>2, <2>1, <2>2 DEF Ends, TypeOK, Labels
<1>3. CASE Discovers(c)
  <2>1. PICK S \in SUBSET Servers :
          /\ todo' = [todo EXCEPT ![c] = S]
          /\ Then(c, IF S = {} THEN <<"repos">> ELSE <<"servers", "save", "repos">>)
          /\ reached' \in {reached, {}}
          /\ scanner' \in {scanner, "dlr", "tui"}
    BY <1>3 DEF Discovers
  <2>2. PICK q \in {<<"repos">>, <<"servers", "save", "repos">>} : Then(c, q)
    BY <2>1
  <2>3. q \in Seq(Labels)
    <3>1. <<"repos">> \in Seq(Labels) /\ <<"servers", "save", "repos">> \in Seq(Labels)
      BY Plans DEF Labels, ClientSteps
    <3> QED BY <2>2, <3>1
  <2>4. steps' \in [Objects -> Seq(Labels)]
    BY <1>3, <2>2, <2>3, ThenSteps DEF Discovers, At
  <2>5. todo' \in [Objects -> SUBSET Sources]
    BY <2>1 DEF TypeOK, Sources
  <2> QED BY <1>3, <2>1, <2>4, <2>5 DEF Discovers, TypeOK, Labels
<1>4. CASE AsksServer(c)
  <2>1. PICK s \in todo[c] : \E b \in {{}, seen[s]} :
          /\ todo' = [todo EXCEPT ![c] = @ \ {s}]
          /\ \/ /\ \/ mem' = [mem EXCEPT ![c] = Drops(mem[c], s)]
                   \/ mem' = [mem EXCEPT ![c] = Knows(Drops(mem[c], s), s)]
                /\ seen' = [seen EXCEPT ![s] = b]
                /\ UNCHANGED reached
             \/ /\ mem' = [mem EXCEPT ![c] = Knows(Upsert(Drops(mem[c], s), s), s)]
                /\ seen' = [seen EXCEPT ![s] = b \cup offers[s]]
                /\ reached' = reached \cup {s}
    BY <1>4 DEF AsksServer, TypeOK
  <2>2. s \in Servers
    <3>1. steps[c] # <<>> /\ steps[c][1] = "servers" /\ 1 \in 1..Len(steps[c])
      BY <1>4, ArgTyped DEF AsksServer, At
    <3>2. todo[c] \subseteq Servers
      BY <3>1 DEF StepsInv
    <3> QED BY <3>2
  <2>3. \E d \in Databases : mem' = [mem EXCEPT ![c] = d]
    <3>1. mem[c] \in Databases /\ s \in Sources
      BY <2>2 DEF TypeOK, Sources
    <3>2. Drops(mem[c], s) \in Databases
      BY <2>2, <3>1, DropsTyped
    <3>3. Upsert(Drops(mem[c], s), s) \in Databases
      BY <3>1, <3>2, UpsertTyped
    <3>4. Knows(Drops(mem[c], s), s) \in Databases
          /\ Knows(Upsert(Drops(mem[c], s), s), s) \in Databases
      BY <2>2, <3>2, <3>3, KnowsTyped
    <3> QED BY <2>1, <3>2, <3>4
  <2>4. seen' \in [Servers -> SUBSET Names] /\ reached' \subseteq Servers
    BY <2>1, <2>2 DEF TypeOK, Sources
  <2>5. mem' \in [Objects -> Databases] /\ todo' \in [Objects -> SUBSET Sources]
    BY <2>1, <2>3 DEF TypeOK
  <2> QED BY <1>4, <2>4, <2>5 DEF AsksServer, TypeOK
<1>5. CASE AddsRepo(c)
  <2>1. arg[c] \in Repos /\ steps[c] # <<>>
    BY <1>5, ArgTyped DEF AddsRepo, At
  <2>2. PICK q \in {<<>>, <<"save">>} : Then(c, q)
    BY <1>5 DEF AddsRepo
  <2>3. q \in Seq(Labels)
    BY <2>2, Plans DEF Labels, ClientSteps
  <2>4. steps' \in [Objects -> Seq(Labels)]
    BY <2>1, <2>2, <2>3, ThenSteps
  <2>5. Adds(mem[c], arg[c]) \in Databases
    BY <2>1, AddsTyped DEF TypeOK
  <2>6. /\ mem' = mem \/ mem' = [mem EXCEPT ![c] = Adds(mem[c], arg[c])]
        /\ did' = did \/ did' = did \cup {arg[c]}
    BY <1>5 DEF AddsRepo
  <2>7. mem' \in [Objects -> Databases] /\ did' \subseteq Names \cup Repos
    BY <2>1, <2>5, <2>6 DEF TypeOK
  <2> QED BY <1>5, <2>4, <2>7 DEF AddsRepo, TypeOK, Labels
<1>6. CASE RemovesRepo(c)
  <2>1. steps[c] # <<>>
    BY <1>6 DEF RemovesRepo, At
  <2>2. PICK q \in {<<>>, <<"save">>} : Then(c, q)
    BY <1>6 DEF RemovesRepo
  <2>3. q \in Seq(Labels)
    BY <2>2, Plans DEF Labels, ClientSteps
  <2>4. steps' \in [Objects -> Seq(Labels)]
    BY <2>1, <2>2, <2>3, ThenSteps
  <2> DEFINE e == [mem[c] EXCEPT !.repos = mem[c].repos \ {arg[c]}]
  <2>5. e \in Databases
    BY FieldSet, Fields DEF TypeOK
  <2>6. /\ mem' = mem \/ mem' = [mem EXCEPT ![c] = e]
        /\ did' = did \/ did' = did \ {arg[c]}
    BY <1>6 DEF RemovesRepo
  <2> HIDE DEF e
  <2>7. mem' \in [Objects -> Databases] /\ did' \subseteq Names \cup Repos
    BY <2>5, <2>6 DEF TypeOK
  <2> QED BY <1>6, <2>4, <2>7 DEF RemovesRepo, TypeOK, Labels
<1>7. CASE Looks(c)
  <2>1. arg[c] \in Names /\ steps[c] # <<>>
    BY <1>7, ArgTyped DEF Looks, At
  <2>2. PICK k \in {"install", "download"} :
          /\ \/ Then(c, <<>>)
             \/ Then(c, <<Get(k)>>)
             \/ Then(c, <<"save", Get(k)>>)
          /\ \/ UNCHANGED <<mem, todo>>
             \/ Located(c) /\ todo' = [todo EXCEPT ![c] = {mem[c].pkgs[arg[c]]}]
                /\ UNCHANGED mem
             \/ \E s \in Servers : /\ mem' = [mem EXCEPT ![c] = Knows(mem[c], s)]
                                    /\ todo' = [todo EXCEPT ![c] = {s}]
    BY <1>7 DEF Looks, FindsServer, TypeOK
  <2>3. <<>> \in Seq(Labels) /\ <<Get(k)>> \in Seq(Labels)
        /\ <<"save", Get(k)>> \in Seq(Labels)
    BY Plans DEF Get, Labels, ClientSteps
  <2>4. steps' \in [Objects -> Seq(Labels)]
    BY <2>1, <2>2, <2>3, ThenSteps
  <2>5. mem' \in [Objects -> Databases]
    <3>1. \A s \in Servers : Knows(mem[c], s) \in Databases
      BY KnowsTyped DEF TypeOK
    <3>2. mem' = mem \/ \E s \in Servers : mem' = [mem EXCEPT ![c] = Knows(mem[c], s)]
      BY <2>2
    <3> QED BY <3>1, <3>2 DEF TypeOK
  <2>6. todo' \in [Objects -> SUBSET Sources]
    <3>1. Located(c) => mem[c].pkgs[arg[c]] \in Sources
      <4>1. mem[c].srvs \subseteq Servers
        BY Fields DEF TypeOK
      <4>2. Located(c) => mem[c].pkgs[arg[c]] \in Repos \cup mem[c].srvs
        BY DEF Located
      <4> QED BY <4>1, <4>2 DEF Sources
    <3>2. todo' = todo \/ \E x \in Sources : todo' = [todo EXCEPT ![c] = {x}]
      <4>1. CASE todo' = todo
        BY <4>1
      <4>2. CASE Located(c) /\ todo' = [todo EXCEPT ![c] = {mem[c].pkgs[arg[c]]}]
        BY <3>1, <4>2
      <4>3. CASE \E x \in Servers : todo' = [todo EXCEPT ![c] = {x}]
        BY <4>3 DEF Sources
      <4> QED BY <2>2, <4>1, <4>2, <4>3
    <3>3. \A x \in Sources : {x} \in SUBSET Sources
      OBVIOUS
    <3>4. CASE todo' = todo
      BY <3>4 DEF TypeOK
    <3>5. ASSUME NEW x \in Sources, todo' = [todo EXCEPT ![c] = {x}]
          PROVE  todo' \in [Objects -> SUBSET Sources]
      BY <3>3, <3>5 DEF TypeOK
    <3> QED BY <3>2, <3>4, <3>5
  <2> QED BY <1>7, <2>4, <2>5, <2>6 DEF Looks, TypeOK, Labels
<1>8. CASE Gets(c)
  <2>1. arg[c] \in Names /\ steps[c] # <<>>
    BY <1>8, ArgTyped DEF Gets, At
  <2>2. PICK q \in {<<>>, <<"save">>} : Then(c, q)
    BY <1>8 DEF Gets
  <2>3. q \in Seq(Labels)
    BY <2>2, Plans DEF Labels, ClientSteps
  <2>4. steps' \in [Objects -> Seq(Labels)]
    BY <2>1, <2>2, <2>3, ThenSteps
  <2>5. /\ mem' = mem \/ mem' = [mem EXCEPT ![c] = Marks(mem[c], arg[c])]
        /\ did' = did \/ did' = did \cup {arg[c]}
    BY <1>8 DEF Gets, TypeOK
  <2>6. mem' \in [Objects -> Databases] /\ did' \subseteq Names \cup Repos
    <3>1. mem[c] \in Databases /\ Marks(mem[c], arg[c]) \in Databases
      BY <2>1, MarksTyped DEF TypeOK
    <3>2. PICK d \in Databases : mem' = mem \/ mem' = [mem EXCEPT ![c] = d]
      BY <2>5, <3>1
    <3>3. mem' \in [Objects -> Databases]
      BY <3>2 DEF TypeOK
    <3>4. did' \subseteq Names \cup Repos
      BY <2>1, <2>5 DEF TypeOK
    <3> QED BY <3>3, <3>4
  <2>7. todo' \in [Objects -> SUBSET Sources]
    BY <1>8 DEF Gets, TypeOK
  <2> QED BY <1>8, <2>4, <2>6, <2>7 DEF Gets, TypeOK, Labels
<1> QED BY <1>1, <1>2, <1>3, <1>4, <1>5, <1>6, <1>7, <1>8 DEF ClientStep

LEMMA TypeTui ==
  ASSUME TypeOK, NEW t \in Tuis, TuiStep(t) PROVE TypeOK'
<1> USE DEF Objects
<1>1. rounds' \in 0..MaxRounds
  BY CmdsAssumption DEF TuiStep, Opens, Calls, Edits, Quits, Begins, TypeOK
<1>2. CASE Opens(t)
  <2>1. <<"load", "load", "menu">> \in Seq(Labels)
    BY Plans DEF Labels, TuiSteps
  <2>2. steps' \in [Objects -> Seq(Labels)]
    BY <1>2, <2>1 DEF Opens, TypeOK, Labels
  <2> QED BY <1>1, <1>2, <2>2 DEF Opens, TypeOK, Labels
<1>3. CASE Calls(t)
  <2>1. PICK k \in {"scan", "install", "download"}, c \in Clients :
          \E a \in Arguments(k) :
            /\ steps' = [steps EXCEPT ![c] = Life(k), ![t] = After(k)]
            /\ arg' = [arg EXCEPT ![c] = a]
            /\ caller' = [caller EXCEPT ![c] = t]
    BY <1>3 DEF Calls
  <2>2. Life(k) \in Seq(Labels) /\ After(k) \in Seq(Labels)
    BY Plans DEF Life, After, Labels, ClientSteps, TuiSteps
  <2>3. steps' \in [Objects -> Seq(Labels)]
    BY <2>1, <2>2 DEF TypeOK, Labels
  <2>4. arg' \in [Objects -> Names \cup Repos \cup {None}]
        /\ caller' \in [Objects -> Tuis \cup {None}]
    BY <2>1 DEF TypeOK, Arguments
  <2> QED BY <1>1, <1>3, <2>3, <2>4 DEF Calls, TypeOK, Labels
<1>4. CASE Edits(t)
  <2>1. PICK q \in {<<"save", "menu">>, <<"save", "load", "menu">>} :
          steps' = [steps EXCEPT ![t] = q]
    BY <1>4 DEF Edits
  <2>2. q \in Seq(Labels)
    <3>1. <<"save", "menu">> \in Seq(Labels) /\ <<"save", "load", "menu">> \in Seq(Labels)
      BY Plans DEF Labels, TuiSteps
    <3> QED BY <2>1, <3>1
  <2>3. steps' \in [Objects -> Seq(Labels)]
    BY <2>1, <2>2 DEF TypeOK, Labels
  <2>4. \E d \in Databases, x \in Names \cup Repos :
          /\ mem' = [mem EXCEPT ![t] = d]
          /\ did' = did \cup {x} \/ did' = did \ {x}
    <3>1. mem[t] \in Databases
      BY DEF TypeOK
    <3>2. ASSUME NEW r \in Repos
          PROVE  /\ [mem[t] EXCEPT !.repos = mem[t].repos \cup {r}] \in Databases
                 /\ [mem[t] EXCEPT !.repos = mem[t].repos \ {r}] \in Databases
      BY <3>1, FieldSet, Fields
    <3>3. ASSUME NEW n \in Names
          PROVE  [mem[t] EXCEPT !.inst = mem[t].inst \ {n}] \in Databases
      BY <3>1, FieldSet, Fields
    <3>4. CASE \E r \in Repos :
                 /\ \/ mem' = [mem EXCEPT ![t] = [mem[t] EXCEPT !.repos = mem[t].repos \cup {r}]]
                    \/ mem' = [mem EXCEPT ![t] = [mem[t] EXCEPT !.repos = mem[t].repos \ {r}]]
                 /\ did' = did \cup {r} \/ did' = did \ {r}
      BY <3>2, <3>4
    <3>5. CASE \E n \in Names :
                 /\ mem' = [mem EXCEPT ![t] = [mem[t] EXCEPT !.inst = mem[t].inst \ {n}]]
                 /\ did' = did \ {n}
      BY <3>3, <3>5
    <3>6. mem[t].repos \subseteq Repos /\ mem[t].inst \subseteq Names
      BY <3>1, Fields
    <3> QED BY <1>4, <3>4, <3>5, <3>6 DEF Edits
  <2>5. mem' \in [Objects -> Databases] /\ did' \subseteq Names \cup Repos
    BY <2>4 DEF TypeOK
  <2> QED BY <1>1, <1>4, <2>3, <2>5 DEF Edits, TypeOK, Labels
<1>5. CASE Quits(t)
  <2>1. steps' \in [Objects -> Seq(Labels)] /\ mem' \in [Objects -> Databases]
    BY <1>5, EmptyTyped, Plans DEF Quits, TypeOK, Labels
  <2> QED BY <1>1, <1>5, <2>1 DEF Quits, TypeOK, Labels
<1> QED BY <1>2, <1>3, <1>4, <1>5 DEF TuiStep

(* Every step keeps the types. *)
LEMMA TypeStep ==
  ASSUME TypeOK, StepsInv, CallInv, [Next]_vars PROVE TypeOK'
<1>1. CASE UNCHANGED vars
  BY <1>1 DEF vars, TypeOK
<1>2. ASSUME NEW p \in Objects, Killed(p) PROVE TypeOK'
  <2>1. \A o \in Objects :
          /\ mem'[o] \in {Empty, mem[o]} /\ steps'[o] \in {<<>>, steps[o]}
          /\ at'[o] \in {1, at[o]} /\ todo'[o] \in {{}, todo[o]}
          /\ arg'[o] \in {None, arg[o]} /\ caller'[o] \in {None, caller[o]}
    BY <1>2 DEF Killed
  <2>2. /\ mem' = [o \in Objects |-> mem'[o]] /\ steps' = [o \in Objects |-> steps'[o]]
        /\ at' = [o \in Objects |-> at'[o]] /\ todo' = [o \in Objects |-> todo'[o]]
        /\ arg' = [o \in Objects |-> arg'[o]] /\ caller' = [o \in Objects |-> caller'[o]]
    BY <1>2 DEF Killed
  <2>3. mem' \in [Objects -> Databases]
    BY <2>1, <2>2, EmptyTyped DEF TypeOK
  <2>4. steps' \in [Objects -> Seq(Labels)]
    <3>1. \A o \in Objects : steps[o] \in Seq(Labels)
      BY DEF TypeOK, Labels
    <3>2. \A o \in Objects : steps'[o] \in Seq(Labels)
      BY <2>1, <3>1, Plans
    <3> QED BY <2>2, <3>2
  <2>5. at' \in [Objects -> 1..4]
    BY <2>1, <2>2, FileNames DEF TypeOK
  <2>6. todo' \in [Objects -> SUBSET Sources]
    BY <2>1, <2>2 DEF TypeOK
  <2>7. /\ arg' \in [Objects -> Names \cup Repos \cup {None}]
        /\ caller' \in [Objects -> Tuis \cup {None}]
    BY <2>1, <2>2 DEF TypeOK
  <2> QED BY <1>2, <2>3, <2>4, <2>5, <2>6, <2>7, FileNames DEF Killed, TypeOK, Labels
<1>3. CASE Publishes
  BY <1>3 DEF Publishes, TypeOK
<1> QED BY <1>1, <1>2, <1>3, TypeObject, TypeClient, TypeTui DEF Next, Objects

-----------------------------------------------------------------------------
(* Who has what to do, and waits for whom.                                 *)

StepsOf(o) ==
  /\ \A i \in 1..Len(steps[o]) :
       /\ steps[o][i] \in (IF o \in Tuis THEN TuiSteps ELSE ClientSteps)
       /\ steps[o][i] \in {"end", "menu"} <=> i = Len(steps[o])
       /\ steps[o][i] \in {"install", "download", "get_install", "get_download"}
            => arg[o] \in Names
       /\ steps[o][i] \in {"addrepo", "removerepo"} => arg[o] \in Repos
       /\ steps[o][i] = "servers" => i = 1 /\ todo[o] \subseteq Servers
  /\ \/ at[o] = 1
     \/ steps[o] # <<>> /\ steps[o][1] \in {"load", "save", "write"}
  /\ steps[o] = <<>> => mem[o] = Empty /\ caller[o] = None

LEMMA StepsParts == StepsInv <=> \A o \in Objects : StepsOf(o)
BY DEF StepsInv, StepsOf

(* An object that a step leaves alone. *)
LEMMA SameSteps ==
  ASSUME NEW p \in Objects, StepsOf(p), steps'[p] = steps[p], arg'[p] = arg[p],
         at'[p] = at[p], caller'[p] = caller[p],
         todo[p] \subseteq Servers => todo'[p] \subseteq Servers,
         steps[p] = <<>> => mem'[p] = mem[p]
  PROVE  StepsOf(p)'
BY DEF StepsOf

(* What may be put before the rest of o's steps. *)
Allowed(o, x) ==
  /\ x \in (IF o \in Tuis THEN TuiSteps ELSE ClientSteps)
  /\ x \notin {"end", "menu", "addrepo", "removerepo", "install", "download"}
  /\ x \in {"get_install", "get_download"} => arg[o] \in Names
  /\ x = "get_install" /\ caller[o] # None => steps[caller[o]][2] = "load"

LEMMA GoesOn ==
  ASSUME TypeOK, StepsInv, CallInv, NEW o \in Objects, NEW q \in Seq(Labels),
         steps[o] # <<>>, steps[o][1] \notin {"end", "menu", "calls"},
         Then(o, q), \A i \in 1..Len(q) : Allowed(o, q[i]),
         \A i \in 1..Len(q) : q[i] = "servers" => i = 1 /\ todo'[o] \subseteq Servers,
         caller' = caller, arg' = arg,
         at'[o] = 1 \/ steps'[o][1] \in {"load", "save", "write"},
         \A p \in Objects \ {o} :
           mem'[p] = mem[p] /\ todo'[p] = todo[p] /\ at'[p] = at[p]
  PROVE  /\ StepsInv' /\ CallInv'
         /\ \A p \in Objects : steps'[p] = <<>> <=> steps[p] = <<>>
<1> DEFINE n == Len(q)
           m == Len(steps[o])
<1>1. steps[o] \in Seq(Labels) /\ m \in Nat /\ m > 0 /\ n \in Nat
  BY ArgTyped
<1>2. m > 1
  <2>1. m # 1
    BY ArgTyped
  <2>2. \A k \in Nat : k > 0 /\ k # 1 => k > 1
    OBVIOUS
  <2> HIDE DEF m, n
  <2> QED BY <1>1, <2>1, <2>2
<1>3. /\ steps' \in [Objects -> Seq(Labels)] /\ Len(steps'[o]) = n + m - 1
      /\ \A i \in 1..Len(steps'[o]) :
           steps'[o][i] = IF i <= n THEN q[i] ELSE steps[o][i - n + 1]
      /\ \A p \in Objects \ {o} : steps'[p] = steps[p]
  BY ThenSteps
<1>4. steps'[o] # <<>>
  BY <1>1, <1>2, <1>3, EmptySeq
<1> HIDE DEF n, m
<1>5. ASSUME NEW i \in 1..Len(steps'[o])
      PROVE  \/ i \in 1..n /\ steps'[o][i] = q[i]
             \/ /\ i > n /\ i - n + 1 \in 1..m /\ i - n + 1 # 1
                /\ steps'[o][i] = steps[o][i - n + 1]
                /\ i - n + 1 = m <=> i = Len(steps'[o])
  BY <1>1, <1>2, <1>3
<1>6. StepsOf(o)
  BY StepsParts
<1>7. ASSUME NEW i \in 1..Len(steps'[o])
      PROVE  /\ steps'[o][i] \in (IF o \in Tuis THEN TuiSteps ELSE ClientSteps)
             /\ steps'[o][i] \in {"end", "menu"} <=> i = Len(steps'[o])
             /\ steps'[o][i] \in {"install", "download", "get_install", "get_download"}
                  => arg[o] \in Names
             /\ steps'[o][i] \in {"addrepo", "removerepo"} => arg[o] \in Repos
             /\ steps'[o][i] = "servers" => i = 1 /\ todo'[o] \subseteq Servers
  <2>1. CASE i \in 1..n /\ steps'[o][i] = q[i]
    <3>1. Allowed(o, q[i]) /\ (q[i] = "servers" => i = 1 /\ todo'[o] \subseteq Servers)
      BY <2>1 DEF n
    <3>2. i # Len(steps'[o])
      BY <1>1, <1>2, <1>3, <2>1
    <3> QED BY <2>1, <3>1, <3>2 DEF Allowed
  <2>2. CASE /\ i > n /\ i - n + 1 \in 1..m /\ i - n + 1 # 1
             /\ steps'[o][i] = steps[o][i - n + 1]
             /\ i - n + 1 = m <=> i = Len(steps'[o])
    <3> DEFINE j == i - n + 1
    <3>1. j \in 1..m /\ j # 1 /\ steps'[o][i] = steps[o][j]
          /\ (j = m <=> i = Len(steps'[o]))
      BY <2>2
    <3> HIDE DEF j
    <3> QED BY <1>6, <3>1 DEF StepsOf, m
  <2> QED BY <1>5, <2>1, <2>2
<1>8. StepsOf(o)'
  BY <1>4, <1>7 DEF StepsOf
<1>9. ASSUME NEW p \in Objects, p # o PROVE StepsOf(p)'
  BY <1>3, <1>9, StepsParts, SameSteps
<1>10. StepsInv'
  BY <1>8, <1>9 DEF StepsOf, StepsInv
<1>11. ASSUME NEW p \in Objects, caller[p] # None
       PROVE  /\ p \in Clients /\ steps'[caller[p]] = steps[caller[p]]
              /\ steps[caller[p]] # <<>> /\ steps[caller[p]][1] = "calls"
  <2>1. /\ p \in Clients /\ steps[caller[p]] # <<>> /\ steps[caller[p]][1] = "calls"
        /\ caller[p] \in Objects
    BY <1>11 DEF CallInv, TypeOK, Objects
  <2>2. caller[p] # o
    BY <2>1
  <2> QED BY <1>3, <2>1, <2>2
<1>12. ASSUME NEW p \in Objects, caller[p] # None, NEW i \in 1..Len(steps'[p])
       PROVE  /\ steps'[p][i] \notin {"addrepo", "removerepo"}
              /\ steps'[p][i] \in {"install", "get_install"} =>
                   steps[caller[p]][2] = "load"
  <2>1. CASE p # o
    BY <1>3, <1>12, <2>1 DEF CallInv
  <2>2. CASE p = o /\ i \in 1..n /\ steps'[o][i] = q[i]
    BY <1>12, <2>2 DEF Allowed, n
  <2>3. CASE p = o /\ \E j \in 1..m : steps'[o][i] = steps[o][j]
    BY <1>12, <2>3 DEF CallInv, m
  <2> QED BY <1>5, <2>1, <2>2, <2>3
<1>13. CallInv'
  BY <1>11, <1>12 DEF CallInv
<1> QED BY <1>3, <1>4, <1>10, <1>13

(* What is put first is first. *)
LEMMA ThenFirst ==
  ASSUME TypeOK, NEW o \in Objects, steps[o] # <<>>, NEW q \in Seq(Labels),
         q # <<>>, Then(o, q)
  PROVE  steps'[o][1] = q[1] /\ steps'[o] # <<>>
<1> DEFINE n == Len(q)
           m == Len(steps[o])
<1>1. steps[o] \in Seq(Labels)
  BY DEF TypeOK, Labels
<1>2. m \in Nat /\ m # 0 /\ n \in Nat /\ n # 0
  BY <1>1, EmptySeq
<1>3. /\ Len(steps'[o]) = n + m - 1 /\ steps' \in [Objects -> Seq(Labels)]
      /\ \A i \in 1..Len(steps'[o]) :
           steps'[o][i] = IF i <= n THEN q[i] ELSE steps[o][i - n + 1]
  BY ThenSteps
<1> HIDE DEF n, m
<1>4. 1 \in 1..(n + m - 1) /\ 1 <= n /\ n + m - 1 # 0
  BY <1>2
<1>5. steps'[o][1] = q[1]
  BY <1>3, <1>4
<1> QED BY <1>3, <1>4, <1>5, EmptySeq

(* load, save and what else goes on with a plan. *)
LEMMA PlanObject ==
  ASSUME TypeOK, StepsInv, CallInv, NEW o \in Objects, ObjectStep(o)
  PROVE  /\ StepsInv' /\ CallInv' /\ caller' = caller
         /\ \A p \in Objects : steps'[p] = <<>> <=> steps[p] = <<>>
<1>1. ASSUME NEW l \in {"load", "save"}, Advance(o, l), steps[o] # <<>>,
             steps[o][1] \in {"load", "write"}, UNCHANGED <<todo, arg, caller>>,
             \A p \in Objects \ {o} : mem'[p] = mem[p]
      PROVE  /\ StepsInv' /\ CallInv'
             /\ \A p \in Objects : steps'[p] = <<>> <=> steps[p] = <<>>
  <2>1. PICK q \in {<<>>, <<l>>} :
          /\ Then(o, q)
          /\ q = <<>> => at'[o] = 1
    BY <1>1, AdvanceSteps
  <2>2. \A p \in Objects \ {o} : at'[p] = at[p]
    BY <1>1, AdvanceSteps
  <2>3. Allowed(o, l) /\ l # "servers" /\ l \in Labels
    BY <1>1 DEF Allowed, Labels, ClientSteps, TuiSteps
  <2>4. <<>> \in Seq(Labels) /\ <<l>> \in Seq(Labels) /\ Len(<<l>>) = 1 /\ <<l>>[1] = l
    BY <2>3, Plans
  <2>5. q \in Seq(Labels) /\ \A i \in 1..Len(q) : q[i] = l
    <3>1. CASE q = <<>>
      BY <2>4, <3>1
    <3>2. CASE q = <<l>>
      BY <2>4, <3>2
    <3> QED BY <2>1, <3>1, <3>2
  <2>6. at'[o] = 1 \/ steps'[o][1] \in {"load", "save", "write"}
    <3>1. CASE q = <<>>
      BY <2>1, <3>1
    <3>2. CASE q = <<l>>
      <4>1. q # <<>> /\ q[1] = l
        BY <2>4, <3>2
      <4>2. steps'[o][1] = l
        BY <1>1, <2>1, <2>5, <4>1, ThenFirst
      <4> QED BY <1>1, <4>2
    <3> QED BY <2>1, <3>1, <3>2
  <2> QED BY <1>1, <2>1, <2>2, <2>3, <2>5, <2>6, GoesOn
<1>2. CASE Load(o)
  BY <1>1, <1>2, LoadEffect, ArgTyped DEF Load, At
<1>3. CASE SaveWrites(o)
  BY <1>1, <1>3, ArgTyped DEF SaveWrites, At
<1>4. CASE SaveOpens(o)
  <2>1. /\ Then(o, <<"write">>) /\ steps[o] # <<>> /\ steps[o][1] = "save"
        /\ UNCHANGED <<mem, at, todo, arg, caller>>
    BY <1>4, ArgTyped DEF SaveOpens, At
  <2>2. "write" \in Labels /\ Allowed(o, "write")
    BY DEF Allowed, Labels, ClientSteps, TuiSteps
  <2>3. <<"write">> \in Seq(Labels) /\ Len(<<"write">>) = 1 /\ <<"write">>[1] = "write"
    BY <2>2, Plans
  <2>4. \A i \in 1..Len(<<"write">>) : <<"write">>[i] = "write"
    BY <2>3
  <2>5. steps'[o][1] = "write"
    <3>1. <<"write">> # <<>>
      BY <2>3
    <3> QED BY <2>1, <2>3, <3>1, ThenFirst
  <2> QED BY <2>1, <2>2, <2>3, <2>4, <2>5, GoesOn
<1>5. CASE Asked(o)
  <2>1. /\ Then(o, <<>>) /\ steps[o] # <<>> /\ steps[o][1] \in {"servers", "fetch"}
        /\ UNCHANGED <<mem, at, todo, arg, caller>>
    BY <1>5, ArgTyped DEF Asked, At
  <2>2. <<>> \in Seq(Labels) /\ 1..Len(<<>>) = {} /\ at[o] = 1
    BY <2>1, Plans DEF StepsInv
  <2> QED BY <2>1, <2>2, GoesOn
<1>6. CASE ListsRepos(o)
  <2>1. PICK q \in {<<>>, <<"fetch", "save">>} : Then(o, q)
    BY <1>6 DEF ListsRepos
  <2>2. /\ steps[o] # <<>> /\ steps[o][1] = "repos"
        /\ UNCHANGED <<mem, at, arg, caller>>
        /\ \A p \in Objects \ {o} : todo'[p] = todo[p]
    BY <1>6, ArgTyped DEF ListsRepos, At, TypeOK
  <2>3. at[o] = 1
    BY <2>2 DEF StepsInv
  <2>4. "fetch" \in Labels /\ Allowed(o, "fetch") /\ "save" \in Labels /\ Allowed(o, "save")
    BY DEF Allowed, Labels, ClientSteps, TuiSteps
  <2>5. q \in Seq(Labels) /\ \A i \in 1..Len(q) : q[i] \in {"fetch", "save"}
    <3>1. CASE q = <<>>
      BY <2>4, <3>1, Plans
    <3>2. CASE q = <<"fetch", "save">>
      BY <2>4, <3>2, Plans
    <3> QED BY <2>1, <3>1, <3>2
  <2> QED BY <2>1, <2>2, <2>3, <2>4, <2>5, GoesOn
<1>7. CASE FetchesIndex(o)
  <2>1. /\ steps' = steps /\ steps[o] # <<>> /\ steps[o][1] = "fetch"
        /\ UNCHANGED <<at, arg, caller>>
        /\ \A p \in Objects : todo'[p] \subseteq todo[p]
        /\ \A p \in Objects \ {o} : mem'[p] = mem[p]
    BY <1>7, ArgTyped DEF FetchesIndex, At, TypeOK
  <2>2. \A p \in Objects : StepsOf(p)'
    BY <2>1, StepsParts, SameSteps
  <2>3. StepsInv' /\ CallInv'
    BY <2>1, <2>2 DEF StepsInv, StepsOf, CallInv
  <2> QED BY <2>1, <2>3
<1>8. caller' = caller
  BY DEF ObjectStep, Load, SaveOpens, SaveWrites, Asked, ListsRepos, FetchesIndex
<1> QED BY <1>2, <1>3, <1>4, <1>5, <1>6, <1>7, <1>8 DEF ObjectStep

(* A command that goes on. *)
LEMMA PlanClient ==
  ASSUME TypeOK, StepsInv, CallInv, NEW c \in Clients,
         \/ Discovers(c) \/ AsksServer(c) \/ AddsRepo(c) \/ RemovesRepo(c)
         \/ Looks(c) \/ Gets(c)
  PROVE  /\ StepsInv' /\ CallInv' /\ caller' = caller
         /\ \A p \in Objects : steps'[p] = <<>> <=> steps[p] = <<>>
<1>1. c \in Objects /\ c \notin Tuis /\ UNCHANGED <<caller, at, arg>>
  BY NamesAssumption DEF Objects, Discovers, AsksServer, AddsRepo, RemovesRepo, Looks, Gets
<1>2. steps[c] # <<>> /\ steps[c][1] \in {"scan", "servers", "addrepo", "removerepo",
                       "install", "download", "get_install", "get_download"}
  BY <1>1, ArgTyped DEF Discovers, AsksServer, AddsRepo, RemovesRepo, Looks, Gets, At
<1>3. at[c] = 1
  BY <1>1, <1>2 DEF StepsInv
<1>4. \A p \in Objects \ {c} : mem'[p] = mem[p] /\ todo'[p] = todo[p]
  BY <1>1 DEF Discovers, AsksServer, AddsRepo, RemovesRepo, Looks, FindsServer, Gets, TypeOK
<1>5. \A x \in {"save", "repos", "servers"} : Allowed(c, x) /\ x \in Labels
  BY <1>1 DEF Allowed, Labels, ClientSteps
<1>6. <<>> \in Seq(Labels) /\ 1..Len(<<>>) = {}
      /\ <<"save">> \in Seq(Labels) /\ \A i \in 1..Len(<<"save">>) : <<"save">>[i] = "save"
  BY <1>5, Plans
<1>7. CASE Discovers(c)
  <2>1. PICK S \in SUBSET Servers :
          /\ todo' = [todo EXCEPT ![c] = S]
          /\ Then(c, IF S = {} THEN <<"repos">> ELSE <<"servers", "save", "repos">>)
    BY <1>7 DEF Discovers
  <2>2. PICK q \in {<<"repos">>, <<"servers", "save", "repos">>} : Then(c, q)
    BY <2>1
  <2>3. todo'[c] \subseteq Servers
    BY <1>1, <2>1 DEF TypeOK
  <2>4. /\ q \in Seq(Labels)
        /\ \A i \in 1..Len(q) : q[i] \in {"repos", "servers", "save"}
                               /\ (q[i] = "servers" => i = 1)
    <3>1. CASE q = <<"repos">>
      BY <1>5, <3>1, Plans
    <3>2. CASE q = <<"servers", "save", "repos">>
      BY <1>5, <3>2, Plans
    <3> QED BY <2>2, <3>1, <3>2
  <2> QED BY <1>1, <1>2, <1>3, <1>4, <1>5, <2>2, <2>3, <2>4, GoesOn
<1>8. CASE AsksServer(c)
  <2>1. /\ steps' = steps
        /\ \A p \in Objects : todo'[p] \subseteq todo[p]
    BY <1>1, <1>8 DEF AsksServer, TypeOK
  <2>2. \A p \in Objects : StepsOf(p)'
    BY <1>1, <1>2, <1>4, <2>1, StepsParts, SameSteps
  <2>3. StepsInv' /\ CallInv'
    BY <1>1, <2>1, <2>2 DEF StepsInv, StepsOf, CallInv
  <2> QED BY <1>1, <2>1, <2>3
<1>9. CASE AddsRepo(c) \/ RemovesRepo(c) \/ Gets(c)
  <2>1. PICK q \in {<<>>, <<"save">>} : Then(c, q)
    BY <1>9 DEF AddsRepo, RemovesRepo, Gets
  <2>2. q \in Seq(Labels) /\ \A i \in 1..Len(q) : q[i] = "save"
    BY <1>6, <2>1
  <2> QED BY <1>1, <1>2, <1>3, <1>4, <1>5, <2>1, <2>2, GoesOn
<1>10. CASE Looks(c)
  <2>1. PICK k \in {"install", "download"} :
          /\ At(c, k)
          /\ Then(c, <<>>) \/ Then(c, <<Get(k)>>) \/ Then(c, <<"save", Get(k)>>)
    BY <1>10 DEF Looks, FindsServer
  <2>2. PICK q \in {<<>>, <<Get(k)>>, <<"save", Get(k)>>} : Then(c, q)
    BY <2>1
  <2>3. Get(k) \in Labels /\ Allowed(c, Get(k)) /\ Get(k) # "servers"
    <3>1. steps[c][1] = k /\ arg[c] \in Names /\ 1 \in 1..Len(steps[c])
      BY <1>1, <1>2, <2>1, ArgTyped DEF At
    <3>2. Get(k) = "get_install" /\ caller[c] # None => steps[caller[c]][2] = "load"
      BY <1>1, <3>1 DEF CallInv, Get
    <3> QED BY <1>1, <3>1, <3>2 DEF Allowed, Get, Labels, ClientSteps
  <2>4. q \in Seq(Labels) /\ \A i \in 1..Len(q) : q[i] \in {"save", Get(k)}
    <3>1. CASE q = <<>>
      BY <1>6, <3>1
    <3>2. CASE q = <<Get(k)>>
      BY <2>3, <3>2, Plans
    <3>3. CASE q = <<"save", Get(k)>>
      BY <1>5, <2>3, <3>3, Plans
    <3> QED BY <2>2, <3>1, <3>2, <3>3
  <2> QED BY <1>1, <1>2, <1>3, <1>4, <1>5, <2>2, <2>3, <2>4, GoesOn
<1> QED BY <1>1, <1>7, <1>8, <1>9, <1>10

(* A Client object that was just made. *)
LEMMA LifeSteps ==
  ASSUME NEW c \in Clients, NEW k \in {"scan", "install", "download", "addrepo", "removerepo"},
         steps'[c] = Life(k), arg'[c] \in Arguments(k), at'[c] = 1
  PROVE  StepsOf(c)' /\ steps'[c] # <<>> /\ Len(steps'[c]) = 3 /\ steps'[c][1] = "load"
         /\ steps'[c][2] = k /\ steps'[c][3] = "end"
<1>1. {"load", "end", k} \subseteq Labels /\ {"load", "end", k} \subseteq ClientSteps
  BY DEF Labels, ClientSteps
<1>2. /\ Len(Life(k)) = 3 /\ Life(k)[1] = "load" /\ Life(k)[2] = k /\ Life(k)[3] = "end"
      /\ Life(k) # <<>>
  BY <1>1, Plans, EmptySeq DEF Life
<1>3. 1..3 = {1, 2, 3}
  OBVIOUS
<1>4. c \notin Tuis
  BY NamesAssumption
<1>5. /\ k \in {"install", "download"} => arg'[c] \in Names
      /\ k \in {"addrepo", "removerepo"} => arg'[c] \in Repos
  BY DEF Arguments
<1>6. ASSUME NEW i \in 1..Len(steps'[c])
      PROVE  /\ steps'[c][i] \in (IF c \in Tuis THEN TuiSteps ELSE ClientSteps)
             /\ steps'[c][i] \in {"end", "menu"} <=> i = Len(steps'[c])
             /\ steps'[c][i] \in {"install", "download", "get_install", "get_download"}
                  => arg'[c] \in Names
             /\ steps'[c][i] \in {"addrepo", "removerepo"} => arg'[c] \in Repos
             /\ steps'[c][i] # "servers"
  <2>1. Len(steps'[c]) = 3 /\ i \in {1, 2, 3}
    BY <1>2, <1>3
  <2>2. CASE i = 1
    BY <1>1, <1>2, <1>4, <2>1, <2>2
  <2>3. CASE i = 2
    BY <1>1, <1>2, <1>4, <1>5, <2>1, <2>3
  <2>4. CASE i = 3
    BY <1>1, <1>2, <1>4, <2>1, <2>4
  <2> QED BY <2>1, <2>2, <2>3, <2>4
<1> QED BY <1>2, <1>6 DEF StepsOf

(* A plan of a TUI, which starts from nothing or from the menu. *)
LEMMA TuiPlan ==
  ASSUME NEW t \in Tuis, NEW q \in Seq(Labels), q # <<>>, steps'[t] = q, at'[t] = 1,
         \A i \in 1..Len(q) :
           q[i] \in {"load", "save", "write", "calls", "repos", "menu"}
           /\ (q[i] = "menu" <=> i = Len(q))
  PROVE  StepsOf(t)'
BY DEF StepsOf, TuiSteps

LEMMA PlanCommand ==
  ASSUME TypeOK, StepsInv, CallInv, NEW c \in Clients, Command(c)
  PROVE  StepsInv' /\ CallInv'
<1>1. PICK k \in Cmds : \E a \in Arguments(k) :
        /\ steps' = [steps EXCEPT ![c] = Life(k)]
        /\ arg' = [arg EXCEPT ![c] = a]
  BY DEF Command
<1>2. c \in Objects /\ c \notin Tuis
  BY NamesAssumption DEF Objects
<1>3. /\ steps[c] = <<>> /\ UNCHANGED <<mem, at, todo, caller>>
      /\ steps'[c] = Life(k) /\ arg'[c] \in Arguments(k)
      /\ \A p \in Objects \ {c} : steps'[p] = steps[p] /\ arg'[p] = arg[p]
  BY <1>1, <1>2 DEF Command, TypeOK
<1>4. at[c] = 1 /\ caller[c] = None
  BY <1>2, <1>3 DEF StepsInv
<1>5. StepsOf(c)'
  BY <1>1, <1>3, <1>4, LifeSteps, CmdsAssumption
<1>6. ASSUME NEW p \in Objects, p # c PROVE StepsOf(p)'
  BY <1>3, <1>6, StepsParts, SameSteps
<1>7. StepsInv'
  BY <1>5, <1>6 DEF StepsInv, StepsOf
<1>8. \A p \in Objects : caller[p] # None =>
        p # c /\ caller[p] # c /\ caller[p] \in Objects
  BY <1>2, <1>4 DEF TypeOK, Objects
<1>9. CallInv'
  BY <1>3, <1>8 DEF CallInv
<1> QED BY <1>7, <1>9

(* A command ends and a TUI that waited for it goes on. *)
LEMMA PlanEnds ==
  ASSUME TypeOK, StepsInv, CallInv, NEW c \in Clients, Ends(c)
  PROVE  /\ StepsInv' /\ CallInv'
         /\ steps'[c] = <<>> /\ caller'[c] = None /\ mem'[c] = Empty
         /\ \A p \in Objects \ {c} :
              caller'[p] = caller[p] /\ mem'[p] = mem[p] /\ at'[p] = at[p]
         /\ \A p \in Objects \ {c} : steps'[p] =
              IF p = caller[c] THEN Tail(steps[p]) ELSE steps[p]
         /\ \A p \in Objects : p = caller[c] =>
              /\ Len(steps[p]) > 1 /\ Len(steps'[p]) = Len(steps[p]) - 1
              /\ \A i \in 1..Len(steps'[p]) : steps'[p][i] = steps[p][i + 1]
<1>1. c \in Objects /\ c \notin Tuis
  BY NamesAssumption DEF Objects
<1>2. steps[c] # <<>> /\ steps[c][1] = "end"
  BY <1>1, ArgTyped DEF Ends, At
<1>3. at[c] = 1
  BY <1>1, <1>2 DEF StepsInv
<1>4. caller[c] # c
  BY <1>1, NamesAssumption DEF TypeOK
<1>5. /\ steps'[c] = <<>> /\ caller'[c] = None /\ mem'[c] = Empty
      /\ UNCHANGED <<at, todo>>
      /\ \A p \in Objects \ {c} :
           caller'[p] = caller[p] /\ mem'[p] = mem[p] /\ arg'[p] = arg[p]
      /\ \A p \in Objects \ {c} : steps'[p] =
           IF p = caller[c] THEN Tail(steps[p]) ELSE steps[p]
  BY <1>1 DEF Ends, TypeOK
<1>6. StepsOf(c)'
  BY <1>3, <1>5 DEF StepsOf
<1>7. ASSUME NEW p \in Objects, p = caller[c]
      PROVE  /\ Len(steps[p]) > 1 /\ Len(steps'[p]) = Len(steps[p]) - 1
             /\ \A i \in 1..Len(steps'[p]) : steps'[p][i] = steps[p][i + 1]
             /\ StepsOf(p)'
  <2>1. steps[p] # <<>> /\ steps[p][1] = "calls" /\ p \in Tuis
    BY <1>1, <1>7, NamesAssumption DEF CallInv, TypeOK
  <2> DEFINE m == Len(steps[p])
  <2>2. steps[p] \in Seq(Labels) /\ m \in Nat /\ m # 0 /\ m # 1
    <3>1. steps[p] \in Seq(Labels) /\ m \in Nat /\ m > 0
      BY <2>1, ArgTyped
    <3>2. m # 1
      BY <2>1, ArgTyped
    <3> QED BY <3>1, <3>2
  <2>3. /\ Len(Tail(steps[p])) = m - 1
        /\ \A i \in 1..Len(Tail(steps[p])) : Tail(steps[p])[i] = steps[p][i + 1]
        /\ Tail(steps[p]) \in Seq(Labels)
    BY <2>1, <2>2, HeadTailProperties
  <2>4. steps'[p] = Tail(steps[p])
    BY <1>4, <1>5, <1>7
  <2>5. StepsOf(p)
    BY StepsParts
  <2> HIDE DEF m
  <2>6. m > 1 /\ m - 1 # 0
    BY <2>2
  <2>7. at'[p] = 1
    BY <1>5, <2>1, <2>5 DEF StepsOf
  <2>8. steps'[p] # <<>>
    BY <2>3, <2>4, <2>6, EmptySeq
  <2>9. ASSUME NEW i \in 1..Len(steps'[p])
        PROVE  /\ i + 1 \in 1..m /\ i + 1 # 1 /\ steps'[p][i] = steps[p][i + 1]
               /\ i + 1 = m <=> i = Len(steps'[p])
    <3>1. i \in 1..(m - 1) /\ steps'[p][i] = steps[p][i + 1] /\ Len(steps'[p]) = m - 1
      BY <2>3, <2>4
    <3>2. i + 1 \in 1..m /\ i + 1 # 1 /\ (i + 1 = m <=> i = m - 1)
      BY <2>2, <3>1
    <3> QED BY <3>1, <3>2
  <2>10. ASSUME NEW i \in 1..Len(steps'[p])
         PROVE  /\ steps'[p][i] \in (IF p \in Tuis THEN TuiSteps ELSE ClientSteps)
                /\ steps'[p][i] \in {"end", "menu"} <=> i = Len(steps'[p])
                /\ steps'[p][i] \in {"install", "download", "get_install", "get_download"}
                     => arg'[p] \in Names
                /\ steps'[p][i] \in {"addrepo", "removerepo"} => arg'[p] \in Repos
                /\ steps'[p][i] # "servers"
    <3>1. PICK j \in 1..m : /\ steps'[p][i] = steps[p][j]
                            /\ j = m <=> i = Len(steps'[p])
                            /\ j # 1
      BY <2>9
    <3>2. arg'[p] = arg[p]
      BY <1>4, <1>5, <1>7
    <3> QED BY <2>5, <3>1, <3>2 DEF StepsOf, m
  <2>11. StepsOf(p)'
    BY <2>7, <2>8, <2>10 DEF StepsOf
  <2> QED BY <2>3, <2>4, <2>6, <2>11 DEF m
<1>8. ASSUME NEW p \in Objects, p # c, p # caller[c] PROVE StepsOf(p)'
  BY <1>5, <1>8, StepsParts, SameSteps
<1>9. StepsInv'
  BY <1>6, <1>7, <1>8 DEF StepsInv, StepsOf
<1>10. ASSUME NEW p \in Objects, caller'[p] # None
       PROVE  /\ p # c /\ caller'[p] = caller[p] /\ caller[p] # None
              /\ caller[p] # c /\ caller[p] # caller[c] /\ caller[p] \in Objects
              /\ steps'[caller[p]] = steps[caller[p]] /\ p # caller[c]
              /\ steps'[p] = steps[p]
  <2>1. p # c /\ caller'[p] = caller[p] /\ caller[p] # None
    BY <1>5, <1>10
  <2>2. caller[p] # caller[c] /\ caller[p] \in Tuis /\ p \in Clients
    BY <1>1, <2>1 DEF CallInv, TypeOK
  <2>3. caller[p] \in Objects /\ caller[p] # c /\ p # caller[c]
    BY <1>1, <2>2, NamesAssumption DEF Objects, TypeOK
  <2> QED BY <1>5, <2>1, <2>2, <2>3
<1>11. CallInv'
  <2>1. ASSUME NEW p \in Objects, caller'[p] # None
        PROVE  /\ p \in Clients
               /\ steps'[caller'[p]] # <<>> /\ steps'[caller'[p]][1] = "calls"
               /\ \A i \in 1..Len(steps'[p]) :
                    /\ steps'[p][i] \notin {"addrepo", "removerepo"}
                    /\ steps'[p][i] \in {"install", "get_install"} =>
                         steps'[caller'[p]][2] = "load"
    BY <1>10, <2>1 DEF CallInv
  <2>2. ASSUME NEW p \in Objects, NEW r \in Objects, caller'[p] = caller'[r],
               caller'[p] # None
        PROVE  p = r
    BY <1>10, <2>2 DEF CallInv
  <2> QED BY <2>1, <2>2 DEF CallInv
<1> QED BY <1>5, <1>7, <1>9, <1>11

(* A TUI opens, is changed from its menu, or closes; nobody is called by it. *)
LEMMA PlanTui ==
  ASSUME TypeOK, StepsInv, CallInv, NEW t \in Tuis,
         Opens(t) \/ Edits(t) \/ Quits(t)
  PROVE  /\ StepsInv' /\ CallInv' /\ caller' = caller
         /\ \A p \in Objects \ {t} : steps'[p] = steps[p] /\ mem'[p] = mem[p]
<1>1. t \in Objects /\ t \notin Clients /\ caller[t] = None
  BY NamesAssumption DEF Objects, CallInv
<1>2. /\ UNCHANGED <<at, todo, arg, caller>>
      /\ \A p \in Objects \ {t} : steps'[p] = steps[p] /\ mem'[p] = mem[p]
  BY <1>1 DEF Opens, Edits, Quits, TypeOK
<1>3. steps[t] = <<>> \/ (steps[t] # <<>> /\ steps[t][1] = "menu")
  BY Plans DEF Opens, Edits, Quits, Labels, TuiSteps
<1>4. at[t] = 1
  BY <1>1, <1>3 DEF StepsInv
<1>5. {"load", "save", "menu"} \subseteq Labels
  BY DEF Labels, TuiSteps
<1>6. ASSUME Opens(t) PROVE StepsOf(t)'
  <2> DEFINE q == <<"load", "load", "menu">>
  <2>1. /\ q \in Seq(Labels) /\ Len(q) = 3
        /\ q[1] = "load" /\ q[2] = "load" /\ q[3] = "menu"
    BY <1>5, Plans
  <2>2. steps'[t] = q
    BY <1>1, <1>6 DEF Opens, TypeOK
  <2> HIDE DEF q
  <2>3. q # <<>> /\ \A i \in 1..Len(q) :
          q[i] \in {"load", "menu"} /\ (q[i] = "menu" <=> i = Len(q))
    BY <2>1, Upto, EmptySeq
  <2>4. StepsOf(t)'
    BY <1>2, <1>4, <2>1, <2>2, <2>3, TuiPlan
  <2> QED BY <2>4
<1>7. ASSUME Edits(t) PROVE StepsOf(t)'
  <2>1. PICK q \in {<<"save", "menu">>, <<"save", "load", "menu">>} : steps'[t] = q
    BY <1>1, <1>7 DEF Edits, TypeOK
  <2>2. CASE q = <<"save", "menu">>
    <3>1. /\ q \in Seq(Labels) /\ Len(q) = 2 /\ q[1] = "save" /\ q[2] = "menu"
      BY <1>5, <2>2, Plans
    <3>2. q # <<>> /\ \A i \in 1..Len(q) :
            q[i] \in {"save", "menu"} /\ (q[i] = "menu" <=> i = Len(q))
      BY <3>1, Upto, EmptySeq
    <3> QED BY <1>2, <1>4, <2>1, <3>1, <3>2, TuiPlan
  <2>3. CASE q = <<"save", "load", "menu">>
    <3>1. /\ q \in Seq(Labels) /\ Len(q) = 3
          /\ q[1] = "save" /\ q[2] = "load" /\ q[3] = "menu"
      BY <1>5, <2>3, Plans
    <3>2. q # <<>> /\ \A i \in 1..Len(q) :
            q[i] \in {"save", "load", "menu"} /\ (q[i] = "menu" <=> i = Len(q))
      BY <3>1, Upto, EmptySeq
    <3> QED BY <1>2, <1>4, <2>1, <3>1, <3>2, TuiPlan
  <2> QED BY <2>1, <2>2, <2>3
<1>8. ASSUME Quits(t) PROVE StepsOf(t)'
  <2>1. steps'[t] = <<>> /\ mem'[t] = Empty
    BY <1>1, <1>8 DEF Quits, TypeOK
  <2>2. 1..Len(<<>>) = {}
    BY Plans
  <2> QED BY <1>1, <1>2, <1>4, <2>1, <2>2 DEF StepsOf
<1>9. StepsOf(t)'
  BY <1>6, <1>7, <1>8
<1>10. ASSUME NEW p \in Objects, p # t PROVE StepsOf(p)'
  BY <1>2, <1>10, StepsParts, SameSteps
<1>11. StepsInv'
  BY <1>9, <1>10 DEF StepsInv, StepsOf
<1>12. \A p \in Objects : caller[p] # None =>
         p # t /\ caller[p] # t /\ caller[p] \in Objects
  BY <1>1, <1>3 DEF CallInv, TypeOK, Objects
<1>13. CallInv'
  BY <1>2, <1>12 DEF CallInv
<1> QED BY <1>2, <1>11, <1>13

(* What a TUI has to do while its command runs and after it. *)
LEMMA AfterSteps ==
  ASSUME NEW k \in {"scan", "install", "download"}
  PROVE  /\ After(k) \in Seq(Labels) /\ After(k) # <<>> /\ After(k)[1] = "calls"
         /\ k = "install" <=> After(k)[2] = "load"
         /\ \A i \in 1..Len(After(k)) :
              /\ After(k)[i] \in {"calls", "repos", "load", "menu"}
              /\ After(k)[i] = "menu" <=> i = Len(After(k))
         /\ Len(After(k)) = 2
            \/ (Len(After(k)) > 2 /\ After(k)[Len(After(k)) - 1] = "load")
<1> DEFINE q == After(k)
<1>1. {"calls", "repos", "load", "menu"} \subseteq Labels
  BY DEF Labels, TuiSteps
<1>2. \/ /\ q = <<"calls", "repos", "load", "menu">> /\ k = "scan"
      \/ /\ q = <<"calls", "load", "menu">> /\ k = "install"
      \/ /\ q = <<"calls", "menu">> /\ k = "download"
  BY DEF After
<1> HIDE DEF q
<1>3. /\ q \in Seq(Labels)
      /\ \/ /\ Len(q) = 4 /\ k = "scan"
            /\ q[1] = "calls" /\ q[2] = "repos" /\ q[3] = "load" /\ q[4] = "menu"
         \/ /\ Len(q) = 3 /\ k = "install"
            /\ q[1] = "calls" /\ q[2] = "load" /\ q[3] = "menu"
         \/ /\ Len(q) = 2 /\ k = "download"
            /\ q[1] = "calls" /\ q[2] = "menu"
  <2>1. CASE q = <<"calls", "repos", "load", "menu">> /\ k = "scan"
    BY <1>1, <2>1, Plans
  <2>2. CASE q = <<"calls", "load", "menu">> /\ k = "install"
    BY <1>1, <2>2, Plans
  <2>3. CASE q = <<"calls", "menu">> /\ k = "download"
    BY <1>1, <2>3, Plans
  <2> QED BY <1>2, <2>1, <2>2, <2>3
<1>4. \A i \in 1..Len(q) :
        q[i] \in {"calls", "repos", "load", "menu"} /\ (q[i] = "menu" <=> i = Len(q))
  <2>1. CASE Len(q) = 4
    <3>1. 1..Len(q) = {1, 2, 3, 4}
      BY <2>1
    <3> QED BY <1>3, <2>1, <3>1
  <2>2. CASE Len(q) = 3
    <3>1. 1..Len(q) = {1, 2, 3}
      BY <2>2
    <3> QED BY <1>3, <2>2, <3>1
  <2>3. CASE Len(q) = 2
    <3>1. 1..Len(q) = {1, 2}
      BY <2>3
    <3> QED BY <1>3, <2>3, <3>1
  <2> QED BY <1>3, <2>1, <2>2, <2>3
<1>5. q # <<>> /\ q[1] = "calls" /\ (k = "install" <=> q[2] = "load")
  BY <1>3, EmptySeq
<1>6. Len(q) = 2 \/ (Len(q) > 2 /\ q[Len(q) - 1] = "load")
  <2>1. CASE Len(q) = 4
    <3>1. Len(q) > 2 /\ Len(q) - 1 = 3
      BY <2>1
    <3> QED BY <1>3, <2>1, <3>1
  <2>2. CASE Len(q) = 3
    <3>1. Len(q) > 2 /\ Len(q) - 1 = 2
      BY <2>2
    <3> QED BY <1>3, <2>2, <3>1
  <2> QED BY <1>3, <2>1, <2>2
<1> QED BY <1>3, <1>4, <1>5, <1>6 DEF q

(* A TUI calls a command. *)
LEMMA PlanCalls ==
  ASSUME TypeOK, StepsInv, CallInv, NEW t \in Tuis, Calls(t)
  PROVE  /\ StepsInv' /\ CallInv'
         /\ \E c \in Clients, k \in {"scan", "install", "download"} :
              /\ steps[c] = <<>> /\ caller' = [caller EXCEPT ![c] = t]
              /\ steps'[c] # <<>> /\ steps'[c][1] = "load"
              /\ steps'[t] = After(k)
              /\ \A p \in Objects \ {c, t} : steps'[p] = steps[p]
<1>1. PICK k \in {"scan", "install", "download"}, c \in Clients :
        \E a \in Arguments(k) :
          /\ steps[c] = <<>>
          /\ steps' = [steps EXCEPT ![c] = Life(k), ![t] = After(k)]
          /\ arg' = [arg EXCEPT ![c] = a]
          /\ caller' = [caller EXCEPT ![c] = t]
  BY DEF Calls
<1>2. c \in Objects /\ t \in Objects /\ c # t /\ c \notin Tuis /\ t \notin Clients
  BY NamesAssumption DEF Objects
<1>3. /\ UNCHANGED <<mem, at, todo>>
      /\ steps'[c] = Life(k) /\ steps'[t] = After(k) /\ arg'[c] \in Arguments(k)
      /\ caller'[c] = t
      /\ \A p \in Objects \ {c, t} : steps'[p] = steps[p]
      /\ \A p \in Objects \ {c} : arg'[p] = arg[p] /\ caller'[p] = caller[p]
  BY <1>1, <1>2 DEF Calls, TypeOK
<1>4. steps[t] # <<>> /\ steps[t][1] = "menu"
  BY Plans DEF Calls, Labels, TuiSteps
<1>5. at[c] = 1 /\ at[t] = 1
  BY <1>1, <1>2, <1>4 DEF StepsInv
<1>6. StepsOf(c)' /\ steps'[c] # <<>> /\ Len(steps'[c]) = 3 /\ steps'[c][1] = "load"
      /\ steps'[c][2] = k /\ steps'[c][3] = "end"
  BY <1>3, <1>5, LifeSteps
<1>7. StepsOf(t)'
  BY <1>3, <1>5, AfterSteps, TuiPlan
<1>8. ASSUME NEW p \in Objects \ {c, t} PROVE StepsOf(p)'
  BY <1>3, StepsParts, SameSteps
<1>9. StepsInv'
  <2>1. \A p \in Objects : StepsOf(p)'
    BY <1>6, <1>7, <1>8
  <2> QED BY <2>1 DEF StepsInv, StepsOf
<1>10. ASSUME NEW p \in Objects, p # c, caller'[p] # None
       PROVE  /\ p # t /\ caller'[p] = caller[p] /\ caller[p] # c /\ caller[p] # t
              /\ caller[p] \in Objects
  <2>1. caller'[p] = caller[p] /\ caller[p] # None
    BY <1>3, <1>10
  <2>2. p \in Clients /\ caller[p] \in Tuis /\ steps[caller[p]][1] = "calls"
    BY <2>1 DEF CallInv, TypeOK
  <2> QED BY <1>2, <1>4, <2>1, <2>2 DEF Objects
<1>11. CallInv'
  <2>1. ASSUME NEW p \in Objects, p # c, caller'[p] # None
        PROVE  /\ p \in Clients
               /\ steps'[caller'[p]] # <<>> /\ steps'[caller'[p]][1] = "calls"
               /\ \A i \in 1..Len(steps'[p]) :
                    /\ steps'[p][i] \notin {"addrepo", "removerepo"}
                    /\ steps'[p][i] \in {"install", "get_install"} =>
                         steps'[caller'[p]][2] = "load"
    BY <1>3, <1>10, <2>1 DEF CallInv
  <2>2. /\ steps'[t] # <<>> /\ steps'[t][1] = "calls"
        /\ \A i \in 1..Len(steps'[c]) :
             /\ steps'[c][i] \notin {"addrepo", "removerepo"}
             /\ steps'[c][i] \in {"install", "get_install"} => steps'[t][2] = "load"
    <3>1. steps'[t] # <<>> /\ steps'[t][1] = "calls"
          /\ (k = "install" => steps'[t][2] = "load")
      BY <1>3, AfterSteps
    <3>2. \A i \in 1..Len(steps'[c]) : steps'[c][i] \in {"load", k, "end"}
      BY <1>6
    <3> QED BY <3>1, <3>2
  <2>3. ASSUME NEW p \in Objects, NEW r \in Objects, caller'[p] = caller'[r],
               caller'[p] # None
        PROVE  p = r
    <3>1. CASE p = c
      BY <1>3, <1>10, <2>3, <3>1
    <3>2. CASE r = c
      BY <1>3, <1>10, <2>3, <3>2
    <3>3. CASE p # c /\ r # c
      BY <1>10, <2>3, <3>3 DEF CallInv
    <3> QED BY <3>1, <3>2, <3>3
  <2> QED BY <1>3, <2>1, <2>2, <2>3 DEF CallInv
<1> QED BY <1>1, <1>3, <1>6, <1>9, <1>11

LEMMA PlanKilled ==
  ASSUME TypeOK, StepsInv, CallInv, NEW p \in Objects, Killed(p)
  PROVE  StepsInv' /\ CallInv'
<1> DEFINE dead == {o \in Objects : p \in {o, caller[o]}}
<1>1. \A o \in dead : /\ steps'[o] = <<>> /\ mem'[o] = Empty /\ at'[o] = 1
                      /\ caller'[o] = None
  BY DEF Killed
<1>2. \A o \in Objects \ dead :
        /\ steps'[o] = steps[o] /\ mem'[o] = mem[o] /\ at'[o] = at[o]
        /\ todo'[o] = todo[o] /\ arg'[o] = arg[o] /\ caller'[o] = caller[o]
  BY DEF Killed
<1>3. 1..Len(<<>>) = {}
  BY Plans
<1>4. ASSUME NEW o \in dead PROVE StepsOf(o)'
  BY <1>1, <1>3 DEF StepsOf
<1>5. ASSUME NEW o \in Objects \ dead PROVE StepsOf(o)'
  <2> HIDE DEF dead
  <2> QED BY <1>2, StepsParts, SameSteps
<1>6. StepsInv'
  BY <1>4, <1>5 DEF StepsInv, StepsOf
<1>7. ASSUME NEW o \in Objects, caller'[o] # None
      PROVE  /\ o \notin dead /\ caller'[o] = caller[o]
             /\ caller[o] \in Objects \ dead
  <2>1. o \notin dead /\ caller'[o] = caller[o] /\ caller[o] # None
    BY <1>1, <1>2, <1>7
  <2>2. caller[o] \in Tuis /\ caller[o] \in Objects /\ caller[o] # p
    BY <2>1 DEF TypeOK, Objects
  <2>3. caller[caller[o]] = None
    BY <2>2, NamesAssumption DEF CallInv
  <2> QED BY <2>1, <2>2, <2>3, NamesAssumption
<1> HIDE DEF dead
<1>8. CallInv'
  BY <1>2, <1>7 DEF CallInv
<1> QED BY <1>6, <1>8

(* Every step keeps the plans. *)
LEMMA PlanStep ==
  ASSUME TypeOK, StepsInv, CallInv, [Next]_vars PROVE StepsInv' /\ CallInv'
<1>1. CASE UNCHANGED vars
  BY <1>1 DEF vars, StepsInv, CallInv
<1>2. CASE Publishes
  BY <1>2 DEF Publishes, StepsInv, CallInv
<1>3. ASSUME NEW c \in Clients, ClientStep(c) PROVE StepsInv' /\ CallInv'
  BY <1>3, PlanCommand, PlanEnds, PlanClient DEF ClientStep
<1>4. ASSUME NEW t \in Tuis, TuiStep(t) PROVE StepsInv' /\ CallInv'
  BY <1>4, PlanTui, PlanCalls DEF TuiStep
<1> QED BY <1>1, <1>2, <1>3, <1>4, PlanObject, PlanKilled DEF Next

-----------------------------------------------------------------------------
(* One process at a time.                                                  *)

LEMMA NothingRuns ==
  ASSUME TypeOK, CallInv, Concurrency = 1, Cardinality(Processes) < Concurrency
  PROVE  \A o \in Objects : steps[o] = <<>>
<1>1. IsFiniteSet(Processes)
  <2>1. Processes \in SUBSET Objects
    BY DEF Processes
  <2> QED BY <2>1, FS_Subset, NamesAssumption
<1>2. Cardinality(Processes) = 0
  BY <1>1, FS_CardinalityType
<1>3. Processes = {}
  BY <1>1, <1>2, FS_EmptySet
<1>4. \A o \in Objects : steps[o] # <<>> => caller[o] # None
  BY <1>3 DEF Processes
<1>5. \A o \in Objects : caller[o] # None =>
        /\ caller[o] \in Objects /\ steps[caller[o]] # <<>>
        /\ caller[caller[o]] = None
  <2>1. ASSUME NEW o \in Objects, caller[o] # None
        PROVE  /\ caller[o] \in Objects /\ steps[caller[o]] # <<>>
               /\ caller[caller[o]] = None
    <3>1. caller[o] \in Tuis /\ steps[caller[o]] # <<>>
      BY <2>1 DEF CallInv, TypeOK
    <3>2. caller[o] \in Objects /\ caller[o] \notin Clients
      BY <3>1, NamesAssumption DEF Objects
    <3> QED BY <3>1, <3>2 DEF CallInv
  <2> QED BY <2>1
<1> QED BY <1>4, <1>5

(* Two objects that have something to do: one is a TUI that waits for the  *)
(* other.                                                                  *)
LEMMA Partner ==
  ASSUME CallInv, OneRuns, NEW o \in Objects, NEW p \in Objects, p # o,
         steps[o] # <<>>, steps[p] # <<>>, steps[o][1] # "calls", None \notin Objects
  PROVE  caller[o] = p /\ steps[p][1] = "calls" /\ o \in Clients
<1>1. caller[p] # o
  BY DEF CallInv
<1>2. caller[o] = p
  BY <1>1 DEF OneRuns
<1> QED BY <1>2 DEF CallInv

LEMMA OneRunsStep ==
  ASSUME TypeOK, StepsInv, CallInv, OneRuns, Concurrency = 1, [Next]_vars
  PROVE  OneRuns'
<1>1. CASE UNCHANGED vars
  BY <1>1 DEF vars, OneRuns
<1>2. CASE Publishes
  BY <1>2 DEF Publishes, OneRuns
<1>3. ASSUME caller' = caller, \A p \in Objects : steps'[p] = <<>> <=> steps[p] = <<>>
      PROVE  OneRuns'
  BY <1>3 DEF OneRuns
<1>4. ASSUME NEW o \in Objects, \A p \in Objects : p # o => steps'[p] = <<>>
      PROVE  OneRuns'
  BY <1>4 DEF OneRuns
<1>5. ASSUME NEW o \in Objects, ObjectStep(o) PROVE OneRuns'
  BY <1>3, <1>5, PlanObject
<1>6. ASSUME NEW p \in Objects, Killed(p) PROVE OneRuns'
  <2>1. \A o \in Objects : steps'[o] # <<>> => steps'[o] = steps[o] /\ caller'[o] = caller[o]
    BY <1>6 DEF Killed
  <2> QED BY <2>1 DEF OneRuns
<1>7. ASSUME NEW c \in Clients, ClientStep(c) PROVE OneRuns'
  <2>1. CASE Command(c)
    <3>1. \A p \in Objects : steps[p] = <<>>
      BY <2>1, NothingRuns DEF Command
    <3>2. c \in Objects /\ \A p \in Objects : p # c => steps'[p] = steps[p]
      BY <2>1 DEF Command, Objects, TypeOK
    <3> QED BY <1>4, <3>1, <3>2
  <2>2. CASE Ends(c)
    <3>1. \A p \in Objects : steps'[p] # <<>> =>
            steps[p] # <<>> /\ caller'[p] = caller[p]
      <4>1. ASSUME NEW p \in Objects, steps'[p] # <<>>
            PROVE  steps[p] # <<>> /\ caller'[p] = caller[p]
        <5>1. p # c /\ caller'[p] = caller[p]
          BY <2>2, <4>1, PlanEnds
        <5>2. CASE p = caller[c]
          <6>1. steps[p] # <<>>
            BY <5>2, NamesAssumption DEF CallInv, Objects
          <6> QED BY <5>1, <6>1
        <5>3. CASE p # caller[c]
          BY <2>2, <4>1, <5>1, <5>3, PlanEnds
        <5> QED BY <5>2, <5>3
      <4> QED BY <4>1
    <3> QED BY <3>1 DEF OneRuns
  <2>3. CASE ~(Command(c) \/ Ends(c))
    <3>1. /\ caller' = caller
          /\ \A p \in Objects : steps'[p] = <<>> <=> steps[p] = <<>>
      BY <1>7, <2>3, PlanClient DEF ClientStep
    <3> QED BY <1>3, <3>1
  <2> QED BY <2>1, <2>2, <2>3
<1>8. ASSUME NEW t \in Tuis, TuiStep(t) PROVE OneRuns'
  <2>1. t \in Objects /\ caller[t] = None
    BY NamesAssumption DEF Objects, CallInv
  <2>2. CASE Opens(t)
    <3>1. \A p \in Objects : steps[p] = <<>>
      BY <2>2, NothingRuns DEF Opens
    <3>2. \A p \in Objects : p # t => steps'[p] = steps[p]
      BY <2>2, PlanTui
    <3> QED BY <1>4, <2>1, <3>1, <3>2
  <2>3. CASE Edits(t) \/ Quits(t)
    <3>1. steps[t] # <<>>
      BY <2>3 DEF Edits, Quits
    <3>2. /\ caller' = caller
          /\ \A p \in Objects : p # t => steps'[p] = steps[p]
      BY <2>3, PlanTui
    <3> QED BY <3>1, <3>2 DEF OneRuns
  <2>4. CASE Calls(t)
    <3>1. PICK c \in Clients :
            /\ caller' = [caller EXCEPT ![c] = t]
            /\ \A p \in Objects \ {c, t} : steps'[p] = steps[p]
      BY <2>4, PlanCalls
    <3>2. steps[t] # <<>> /\ steps[t][1] = "menu"
      BY <2>4, Plans DEF Calls, Labels, TuiSteps
    <3>3. \A p \in Objects : p # t => steps[p] = <<>>
      BY <2>1, <3>2, Partner, NamesAssumption
    <3>4. c \in Objects /\ caller'[c] = t
      BY <3>1 DEF Objects, TypeOK
    <3>5. \A p \in Objects : steps'[p] # <<>> => p \in {c, t}
      BY <3>1, <3>3
    <3> QED BY <3>4, <3>5 DEF OneRuns
  <2> QED BY <1>8, <2>2, <2>3, <2>4 DEF TuiStep
<1> QED BY <1>1, <1>2, <1>5, <1>6, <1>7, <1>8 DEF Next

-----------------------------------------------------------------------------
(* Where the deeds are kept.                                               *)

(* What o has in memory of file f. *)
Good(o, f) == steps[o] # <<>> =>
  /\ mem[o][Files[f]] \subseteq Deeds(f)
  /\ Behind(o, f) \/ mem[o][Files[f]] = Deeds(f)

Kept(f) == file[Files[f]] = Deeds(f) \/ \E o \in Objects : Owes(o, f)

LEMMA KeptParts ==
  /\ MemInv <=> (whole => \A o \in Objects, f \in {3, 4} : Good(o, f))
  /\ FileInv <=> (whole => \A f \in {3, 4} : Kept(f))
BY DEF MemInv, FileInv, Good, Kept

LEMMA SameGood ==
  ASSUME NEW o \in Objects, NEW f, Good(o, f), steps'[o] = steps[o], at'[o] = at[o],
         mem'[o] = mem[o], did' = did
  PROVE  Good(o, f)'
BY DEF Good, Behind, Deeds

(* Nobody but o owes anything. *)
LEMMA OnlyOwes ==
  ASSUME TypeOK, CallInv, OneRuns, NEW o \in Objects, NEW f \in {3, 4}, Kept(f),
         steps[o] # <<>>, steps[o][1] # "calls",
         ~Owes(o, f)
  PROVE  file[Files[f]] = Deeds(f)
<1>1. ASSUME NEW p \in Objects, Owes(p, f) PROVE FALSE
  <2>1. p # o /\ steps[p] # <<>> /\ steps[p][1] \in {"save", "write"}
    BY <1>1 DEF Owes
  <2> QED BY <2>1, Partner, NamesAssumption
<1> QED BY <1>1 DEF Kept

(* An object that does not read has it all. *)
LEMMA Calm ==
  ASSUME NEW o \in Objects, NEW f, Good(o, f), steps[o] # <<>>,
         steps[o][1] \notin {"load", "calls"}
  PROVE  mem[o][Files[f]] = Deeds(f)
BY DEF Good, Behind

(* A step that neither does nor writes a thing. *)
LEMMA QuietStep ==
  ASSUME TypeOK, CallInv, OneRuns, NEW o \in Objects, steps[o] # <<>>,
         steps[o][1] \notin {"load", "calls", "save", "write"},
         \A p \in Objects, f \in {3, 4} : Good(p, f), \A f \in {3, 4} : Kept(f),
         file' = file, did' = did,
         \A p \in Objects \ {o} :
           steps'[p] = steps[p] /\ mem'[p] = mem[p] /\ at'[p] = at[p],
         \A f \in {3, 4} : mem'[o][Files[f]] = mem[o][Files[f]]
  PROVE  (\A p \in Objects, f \in {3, 4} : Good(p, f)') /\ \A f \in {3, 4} : Kept(f)'
<1>1. ASSUME NEW f \in {3, 4} PROVE Kept(f)'
  <2>1. ~Owes(o, f)
    BY DEF Owes
  <2>2. file[Files[f]] = Deeds(f)
    BY <2>1, OnlyOwes
  <2> QED BY <2>2 DEF Kept, Deeds
<1>2. ASSUME NEW f \in {3, 4} PROVE Good(o, f)'
  <2>1. mem[o][Files[f]] = Deeds(f)
    BY Calm
  <2> QED BY <2>1 DEF Good, Deeds
<1>3. ASSUME NEW p \in Objects, p # o, NEW f \in {3, 4} PROVE Good(p, f)'
  BY <1>3, SameGood
<1> QED BY <1>1, <1>2, <1>3

(* A deed: o has it, will save it, and who else has something to do will   *)
(* read it.                                                                *)
LEMMA DeedStep ==
  ASSUME NEW o \in Objects, steps'[o] # <<>>, steps'[o][1] = "save", at'[o] = 1,
         \A p \in Objects, f \in {3, 4} : Good(p, f),
         \A f \in {3, 4} : mem'[o][Files[f]] = Deeds(f)',
         \A p \in Objects \ {o} :
           steps'[p] = steps[p] /\ mem'[p] = mem[p] /\ at'[p] = at[p],
         \A p \in Objects \ {o} : steps[p] # <<>> =>
           \A f \in {3, 4} : Behind(p, f) /\ Deeds(f) \subseteq Deeds(f)'
  PROVE  (\A p \in Objects, f \in {3, 4} : Good(p, f)') /\ \A f \in {3, 4} : Kept(f)'
<1>1. ASSUME NEW f \in {3, 4} PROVE Kept(f)' /\ Good(o, f)'
  <2>1. Owes(o, f)'
    BY DEF Owes
  <2> QED BY <2>1 DEF Kept, Good
<1>2. ASSUME NEW p \in Objects, p # o, NEW f \in {3, 4} PROVE Good(p, f)'
  BY <1>2 DEF Good, Behind
<1> QED BY <1>1, <1>2

(* Something was installed or added, or taken out. *)
LEMMA DeedsChange ==
  ASSUME NEW x
  PROVE  /\ x \in Names /\ did' = did \cup {x} =>
              Deeds(3)' = Deeds(3) /\ Deeds(4)' = Deeds(4) \cup {x}
         /\ x \in Repos /\ did' = did \cup {x} =>
              Deeds(3)' = Deeds(3) \cup {x} /\ Deeds(4)' = Deeds(4)
         /\ x \in Names /\ did' = did \ {x} =>
              Deeds(3)' = Deeds(3) /\ Deeds(4)' = Deeds(4) \ {x}
         /\ x \in Repos /\ did' = did \ {x} =>
              Deeds(3)' = Deeds(3) \ {x} /\ Deeds(4)' = Deeds(4)
BY NamesAssumption DEF Deeds

LEMMA KeptLoad ==
  ASSUME TypeOK, StepsInv, CallInv, OneRuns, NEW o \in Objects, Load(o),
         \A p \in Objects, f \in {3, 4} : Good(p, f), \A f \in {3, 4} : Kept(f)
  PROVE  (\A p \in Objects, f \in {3, 4} : Good(p, f)') /\ \A f \in {3, 4} : Kept(f)'
<1>1. steps[o] # <<>> /\ steps[o][1] = "load" /\ file' = file /\ did' = did
  BY ArgTyped DEF Load, At
<1>2. \A f \in {3, 4} : file[Files[f]] = Deeds(f)
  <2>1. \A f \in {3, 4} : ~Owes(o, f)
    BY <1>1 DEF Owes
  <2> QED BY <1>1, <2>1, OnlyOwes
<1>3. \A f \in {3, 4} : Kept(f)'
  BY <1>1, <1>2 DEF Kept, Deeds
<1>4. PICK q \in {<<>>, <<"load">>} :
        /\ Then(o, q)
        /\ q = <<>> => at[o] = 4 /\ at'[o] = 1
        /\ q # <<>> => at[o] < 4 /\ at'[o] = at[o] + 1
  BY AdvanceSteps DEF Load
<1>5. at[o] \in 1..4
  BY FileNames DEF TypeOK
<1>6. ASSUME NEW f \in {3, 4} PROVE Good(o, f)'
  <2>1. mem'[o][Files[f]] = IF f = at[o] THEN mem[o][Files[f]] \cup file[Files[f]]
                                        ELSE mem[o][Files[f]]
    BY LoadEffect
  <2>2. mem[o][Files[f]] \subseteq Deeds(f) /\ Deeds(f)' = Deeds(f)
    BY <1>1 DEF Good, Deeds
  <2>3. CASE at[o] = f
    BY <1>2, <2>1, <2>2, <2>3 DEF Good
  <2>4. CASE at[o] < f
    <3>1. q = <<"load">> /\ at'[o] = at[o] + 1
      BY <1>4, <1>5, <2>4
    <3>2. <<"load">> \in Seq(Labels) /\ <<"load">>[1] = "load" /\ <<"load">> # <<>>
      BY Plans, EmptySeq DEF Labels, TuiSteps
    <3>3. steps'[o][1] = "load"
      BY <1>1, <1>4, <3>1, <3>2, ThenFirst
    <3>4. at'[o] <= f
      BY <1>5, <2>4, <3>1
    <3>5. Behind(o, f)'
      BY <3>3, <3>4 DEF Behind
    <3> QED BY <2>1, <2>2, <2>4, <3>5 DEF Good
  <2>5. CASE at[o] > f
    <3>1. ~(at[o] <= f) /\ f # at[o]
      BY <1>5, <2>5
    <3>2. mem[o][Files[f]] = Deeds(f)
      BY <1>1, <3>1 DEF Good, Behind
    <3> QED BY <2>1, <2>2, <3>1, <3>2 DEF Good
  <2> QED BY <1>5, <2>3, <2>4, <2>5
<1>7. ASSUME NEW p \in Objects, p # o, NEW f \in {3, 4} PROVE Good(p, f)'
  <2>1. mem'[p] = mem[p] /\ at'[p] = at[p] /\ steps'[p] = steps[p]
    BY <1>7, LoadEffect, AdvanceSteps DEF Load, Then, TypeOK
  <2> QED BY <1>1, <2>1, SameGood
<1> QED BY <1>3, <1>6, <1>7

LEMMA KeptSave ==
  ASSUME TypeOK, StepsInv, CallInv, OneRuns, NEW o \in Objects,
         SaveOpens(o) \/ SaveWrites(o),
         \A p \in Objects, f \in {3, 4} : Good(p, f), \A f \in {3, 4} : Kept(f)
  PROVE  (\A p \in Objects, f \in {3, 4} : Good(p, f)') /\ \A f \in {3, 4} : Kept(f)'
<1>1. /\ steps[o] # <<>> /\ steps[o][1] \in {"save", "write"} /\ did' = did /\ mem' = mem
      /\ \A p \in Objects \ {o} : steps'[p] = steps[p]
  BY ArgTyped DEF SaveOpens, SaveWrites, At, Advance, Then, TypeOK
<1>2. /\ at[o] \in 1..4
      /\ \A p \in Objects \ {o} : at'[p] = at[p]
  BY AdvanceSteps, FileNames DEF TypeOK, SaveOpens, SaveWrites
<1>3. \A f \in {3, 4} : mem[o][Files[f]] = Deeds(f) /\ Deeds(f)' = Deeds(f)
  BY <1>1, Calm DEF Deeds
<1>4. ASSUME NEW p \in Objects, NEW f \in {3, 4} PROVE Good(p, f)'
  <2>1. CASE p = o
    BY <1>1, <1>3, <2>1 DEF Good
  <2>2. CASE p # o
    BY <1>1, <1>2, <2>2, SameGood
  <2> QED BY <2>1, <2>2
<1>5. ASSUME NEW f \in {3, 4}, f < at[o] PROVE Kept(f)'
  <2>1. ~Owes(o, f)
    BY <1>2, <1>5 DEF Owes
  <2>2. file[Files[f]] = Deeds(f)
    BY <1>1, <2>1, OnlyOwes
  <2>3. f # at[o]
    BY <1>2, <1>5
  <2> QED BY <1>3, <2>2, <2>3, SaveEffect DEF Kept
<1>6. ASSUME NEW f \in {3, 4}, f >= at[o] PROVE Kept(f)'
  <2>1. CASE SaveOpens(o)
    <3>1. <<"write">> \in Seq(Labels) /\ <<"write">>[1] = "write" /\ <<"write">> # <<>>
      BY Plans, EmptySeq DEF Labels, TuiSteps
    <3>2. steps'[o][1] = "write" /\ steps'[o] # <<>> /\ at' = at
      BY <1>1, <2>1, <3>1, ThenFirst DEF SaveOpens
    <3>3. Owes(o, f)'
      BY <1>2, <1>6, <3>2 DEF Owes
    <3> QED BY <3>3 DEF Kept
  <2>2. CASE SaveWrites(o) /\ f = at[o]
    BY <1>3, <2>2, SaveEffect DEF Kept
  <2>3. CASE SaveWrites(o) /\ f # at[o]
    <3>1. PICK q \in {<<>>, <<"save">>} :
            /\ Then(o, q)
            /\ q = <<>> => at[o] = 4 /\ at'[o] = 1
            /\ q # <<>> => at[o] < 4 /\ at'[o] = at[o] + 1
      BY <2>3, AdvanceSteps DEF SaveWrites
    <3>2. at[o] < f /\ at[o] # 4
      BY <1>2, <1>6, <2>3
    <3>3. q = <<"save">> /\ at'[o] = at[o] + 1
      BY <3>1, <3>2
    <3>4. <<"save">> \in Seq(Labels) /\ <<"save">>[1] = "save" /\ <<"save">> # <<>>
      BY Plans, EmptySeq DEF Labels, TuiSteps
    <3>5. steps'[o][1] = "save" /\ steps'[o] # <<>>
      BY <1>1, <3>1, <3>3, <3>4, ThenFirst
    <3>6. at'[o] <= f
      BY <1>2, <3>2, <3>3
    <3>7. Owes(o, f)'
      BY <3>5, <3>6 DEF Owes
    <3> QED BY <3>7 DEF Kept
  <2> QED BY <2>1, <2>2, <2>3
<1>7. \A f \in {3, 4} : f < at[o] \/ f >= at[o]
  BY <1>2
<1> QED BY <1>4, <1>5, <1>6, <1>7


(* What a source or a discovery changes is neither the repositories nor    *)
(* what is installed.                                                      *)
LEMMA QuietMem ==
  ASSUME TypeOK, StepsInv, NEW o \in Objects,
         \/ Asked(o) \/ ListsRepos(o) \/ FetchesIndex(o)
         \/ o \in Clients /\ (Discovers(o) \/ AsksServer(o) \/ Looks(o))
  PROVE  /\ steps[o] # <<>> /\ steps[o][1] \in {"servers", "fetch", "repos", "scan",
                                                "install", "download"}
         /\ file' = file /\ did' = did /\ at' = at
         /\ mem'[o].repos = mem[o].repos /\ mem'[o].inst = mem[o].inst
         /\ \A p \in Objects \ {o} : mem'[p] = mem[p] /\ steps'[p] = steps[p]
<1>1. /\ steps[o] # <<>>
      /\ steps[o][1] \in {"servers", "fetch", "repos", "scan", "install", "download"}
      /\ file' = file /\ did' = did /\ at' = at
  BY ArgTyped DEF Asked, ListsRepos, FetchesIndex, Discovers, AsksServer, Looks, At
<1>2. \A p \in Objects \ {o} : steps'[p] = steps[p]
  BY DEF Asked, ListsRepos, FetchesIndex, Discovers, AsksServer, Looks, FindsServer,
         Then, TypeOK
<1>3. \A p \in Objects \ {o} : mem'[p] = mem[p]
  BY DEF Asked, ListsRepos, FetchesIndex, Discovers, AsksServer, Looks, FindsServer, TypeOK
<1>4. mem[o] \in Databases
  BY DEF TypeOK
<1>5. mem'[o].repos = mem[o].repos /\ mem'[o].inst = mem[o].inst
  <2>1. CASE mem' = mem
    BY <2>1
  <2>2. CASE FetchesIndex(o) /\ mem' # mem
    <3>1. PICK r \in todo[o] : mem' = [mem EXCEPT ![o] = Upsert(@, r)]
      BY <2>2 DEF FetchesIndex
    <3>2. mem'[o] = Upsert(mem[o], r) /\ r \in Sources
      BY <3>1 DEF TypeOK
    <3> QED BY <1>4, <3>2, UpsertTyped
  <2>3. CASE AsksServer(o)
    <3>1. PICK s \in todo[o] :
            \/ mem' = [mem EXCEPT ![o] = Drops(@, s)]
            \/ mem' = [mem EXCEPT ![o] = Knows(Drops(@, s), s)]
            \/ mem' = [mem EXCEPT ![o] = Knows(Upsert(Drops(@, s), s), s)]
      BY <2>3 DEF AsksServer
    <3>2. mem'[o] = Drops(mem[o], s) \/ mem'[o] = Knows(Drops(mem[o], s), s)
          \/ mem'[o] = Knows(Upsert(Drops(mem[o], s), s), s)
      BY <3>1 DEF TypeOK
    <3>3. s \in Servers /\ s \in Sources
      <4>1. steps[o] # <<>> /\ steps[o][1] = "servers"
        BY <2>3, <1>1, ArgTyped DEF AsksServer, At
      <4>2. todo[o] \subseteq Servers
        BY <4>1, ArgTyped DEF StepsInv
      <4> QED BY <3>1, <4>2 DEF Sources
    <3>4. /\ Drops(mem[o], s) \in Databases
          /\ Drops(mem[o], s).repos = mem[o].repos /\ Drops(mem[o], s).inst = mem[o].inst
      BY <1>4, <3>3, DropsTyped
    <3>5. /\ Upsert(Drops(mem[o], s), s) \in Databases
          /\ Upsert(Drops(mem[o], s), s).repos = mem[o].repos
          /\ Upsert(Drops(mem[o], s), s).inst = mem[o].inst
      BY <3>3, <3>4, UpsertTyped
    <3>6. /\ Knows(Drops(mem[o], s), s).repos = mem[o].repos
          /\ Knows(Drops(mem[o], s), s).inst = mem[o].inst
      BY <3>3, <3>4, KnowsTyped
    <3>7. /\ Knows(Upsert(Drops(mem[o], s), s), s).repos = mem[o].repos
          /\ Knows(Upsert(Drops(mem[o], s), s), s).inst = mem[o].inst
      BY <3>3, <3>5, KnowsTyped
    <3> QED BY <3>2, <3>4, <3>6, <3>7
  <2>4. CASE Looks(o) /\ mem' # mem
    <3>1. PICK s \in Servers : mem' = [mem EXCEPT ![o] = Knows(@, s)]
      BY <2>4 DEF Looks, FindsServer
    <3>2. mem'[o] = Knows(mem[o], s)
      BY <3>1 DEF TypeOK
    <3> QED BY <1>4, <3>2, KnowsTyped
  <2>5. CASE Asked(o) \/ ListsRepos(o) \/ Discovers(o)
    BY <2>5 DEF Asked, ListsRepos, Discovers
  <2> QED BY <2>1, <2>2, <2>3, <2>4, <2>5
<1> QED BY <1>1, <1>2, <1>3, <1>5

LEMMA KeptQuiet ==
  ASSUME TypeOK, StepsInv, CallInv, OneRuns, NEW o \in Objects,
         \/ Asked(o) \/ ListsRepos(o) \/ FetchesIndex(o)
         \/ o \in Clients /\ (Discovers(o) \/ AsksServer(o) \/ Looks(o)),
         \A p \in Objects, f \in {3, 4} : Good(p, f), \A f \in {3, 4} : Kept(f)
  PROVE  (\A p \in Objects, f \in {3, 4} : Good(p, f)') /\ \A f \in {3, 4} : Kept(f)'
<1>1. \A f \in {3, 4} : mem'[o][Files[f]] = mem[o][Files[f]]
  BY QuietMem, FileNames
<1> QED BY <1>1, QuietMem, QuietStep

(* addrepo, removerepo and install. *)
LEMMA KeptCommand ==
  ASSUME TypeOK, StepsInv, CallInv, OneRuns, NEW c \in Clients,
         AddsRepo(c) \/ RemovesRepo(c) \/ Gets(c),
         \A p \in Objects, f \in {3, 4} : Good(p, f), \A f \in {3, 4} : Kept(f)
  PROVE  (\A p \in Objects, f \in {3, 4} : Good(p, f)') /\ \A f \in {3, 4} : Kept(f)'
<1>1. c \in Objects /\ c \notin Tuis
  BY NamesAssumption DEF Objects
<1>2. /\ steps[c] # <<>>
      /\ steps[c][1] \in {"addrepo", "removerepo", "get_install", "get_download"}
      /\ file' = file /\ at' = at /\ caller' = caller
  BY <1>1, ArgTyped DEF AddsRepo, RemovesRepo, Gets, At
<1>3. \A p \in Objects \ {c} : mem'[p] = mem[p] /\ steps'[p] = steps[p]
  BY <1>1 DEF AddsRepo, RemovesRepo, Gets, Then, TypeOK
<1>4. mem[c] \in Databases /\ 1 \in 1..Len(steps[c])
  BY <1>1, <1>2, ArgTyped DEF TypeOK
<1>5. CASE mem' = mem /\ did' = did
  BY <1>1, <1>2, <1>3, <1>5, QuietStep
<1>6. ASSUME Then(c, <<"save">>),
             \A f \in {3, 4} : mem'[c][Files[f]] = Deeds(f)',
             \A p \in Objects \ {c} : steps[p] # <<>> =>
               \A f \in {3, 4} : Behind(p, f) /\ Deeds(f) \subseteq Deeds(f)'
      PROVE  (\A p \in Objects, f \in {3, 4} : Good(p, f)') /\ \A f \in {3, 4} : Kept(f)'
  <2>1. <<"save">> \in Seq(Labels) /\ <<"save">>[1] = "save" /\ <<"save">> # <<>>
    BY Plans, EmptySeq DEF Labels, TuiSteps
  <2>2. steps'[c][1] = "save" /\ steps'[c] # <<>>
    BY <1>1, <1>2, <1>6, <2>1, ThenFirst
  <2>3. at'[c] = 1
    BY <1>1, <1>2 DEF StepsInv
  <2> QED BY <1>1, <1>2, <1>3, <1>6, <2>2, <2>3, DeedStep
<1>7. \A p \in Objects \ {c} : steps[p] # <<>> =>
        caller[c] = p /\ steps[p][1] = "calls"
  BY <1>1, <1>2, Partner, NamesAssumption
<1>8. \A f \in {3, 4} : mem[c][Files[f]] = Deeds(f)
  BY <1>1, <1>2, Calm
<1>9. mem[c].repos = Deeds(3) /\ mem[c].inst = Deeds(4)
  BY <1>8, FileNames
<1>10. CASE AddsRepo(c) /\ ~(mem' = mem /\ did' = did)
  <2>1. steps[c][1] = "addrepo" /\ arg[c] \in Repos
    BY <1>1, <1>10, ArgTyped DEF AddsRepo, At
  <2>2. /\ mem'[c] = Adds(mem[c], arg[c]) /\ did' = did \cup {arg[c]}
        /\ Then(c, <<"save">>)
    BY <1>1, <1>10 DEF AddsRepo, TypeOK
  <2>3. mem'[c].repos = mem[c].repos \cup {arg[c]} /\ mem'[c].inst = mem[c].inst
    BY <1>4, <2>1, <2>2, AddsTyped
  <2>4. \A f \in {3, 4} : mem'[c][Files[f]] = Deeds(f)'
    <3>1. Deeds(3)' = Deeds(3) \cup {arg[c]} /\ Deeds(4)' = Deeds(4)
      BY <2>1, <2>2, DeedsChange
    <3>2. mem'[c].repos = Deeds(3)' /\ mem'[c].inst = Deeds(4)'
      BY <1>9, <2>3, <3>1
    <3> QED BY <3>2, FileNames
  <2>5. caller[c] = None
    BY <1>1, <1>4, <2>1 DEF CallInv
  <2>6. \A p \in Objects \ {c} : steps[p] = <<>>
    BY <1>7, <2>5, NamesAssumption
  <2> QED BY <1>6, <2>2, <2>4, <2>6
<1>11. CASE RemovesRepo(c) /\ ~(mem' = mem /\ did' = did)
  <2>1. steps[c][1] = "removerepo" /\ arg[c] \in Repos
    BY <1>1, <1>11, ArgTyped DEF RemovesRepo, At
  <2>2. /\ mem'[c] = [mem[c] EXCEPT !.repos = mem[c].repos \ {arg[c]}]
        /\ did' = did \ {arg[c]} /\ Then(c, <<"save">>)
    BY <1>1, <1>11 DEF RemovesRepo, TypeOK
  <2>3. mem'[c].repos = mem[c].repos \ {arg[c]} /\ mem'[c].inst = mem[c].inst
    BY <1>4, <2>2 DEF Databases
  <2>4. \A f \in {3, 4} : mem'[c][Files[f]] = Deeds(f)'
    <3>1. Deeds(3)' = Deeds(3) \ {arg[c]} /\ Deeds(4)' = Deeds(4)
      BY <2>1, <2>2, DeedsChange
    <3>2. mem'[c].repos = Deeds(3)' /\ mem'[c].inst = Deeds(4)'
      BY <1>9, <2>3, <3>1
    <3> QED BY <3>2, FileNames
  <2>5. caller[c] = None
    BY <1>1, <1>4, <2>1 DEF CallInv
  <2>6. \A p \in Objects \ {c} : steps[p] = <<>>
    BY <1>7, <2>5, NamesAssumption
  <2> QED BY <1>6, <2>2, <2>4, <2>6
<1>12. CASE Gets(c) /\ ~(mem' = mem /\ did' = did)
  <2>1. steps[c][1] = "get_install" /\ arg[c] \in Names
    BY <1>1, <1>12, ArgTyped DEF Gets, At
  <2>2. /\ mem'[c] = Marks(mem[c], arg[c]) /\ did' = did \cup {arg[c]}
        /\ Then(c, <<"save">>)
    BY <1>1, <1>12 DEF Gets, TypeOK
  <2>3. mem'[c].inst = mem[c].inst \cup {arg[c]} /\ mem'[c].repos = mem[c].repos
    BY <1>4, <2>1, <2>2, MarksTyped
  <2>4. \A f \in {3, 4} : mem'[c][Files[f]] = Deeds(f)'
    <3>1. Deeds(3)' = Deeds(3) /\ Deeds(4)' = Deeds(4) \cup {arg[c]}
      BY <2>1, <2>2, DeedsChange
    <3>2. mem'[c].repos = Deeds(3)' /\ mem'[c].inst = Deeds(4)'
      BY <1>9, <2>3, <3>1
    <3> QED BY <3>2, FileNames
  <2>5. \A f \in {3, 4} : Deeds(f) \subseteq Deeds(f)'
    BY <2>1, <2>2, DeedsChange
  <2>6. ASSUME NEW p \in Objects, p # c, steps[p] # <<>>, NEW f \in {3, 4}
        PROVE  Behind(p, f)
    <3>1. caller[c] = p /\ steps[p][1] = "calls" /\ caller[c] # None
      BY <1>7, <2>6, NamesAssumption
    <3>2. steps[p][2] = "load"
      BY <1>1, <1>4, <2>1, <3>1 DEF CallInv
    <3> QED BY <3>1, <3>2 DEF Behind
  <2> QED BY <1>6, <2>2, <2>4, <2>5, <2>6
<1> QED BY <1>5, <1>10, <1>11, <1>12

(* The TUI's own changes. *)
LEMMA KeptEdits ==
  ASSUME TypeOK, StepsInv, CallInv, OneRuns, NEW t \in Tuis, Edits(t),
         \A p \in Objects, f \in {3, 4} : Good(p, f), \A f \in {3, 4} : Kept(f)
  PROVE  (\A p \in Objects, f \in {3, 4} : Good(p, f)') /\ \A f \in {3, 4} : Kept(f)'
<1>1. t \in Objects /\ t \notin Clients /\ mem[t] \in Databases
  BY NamesAssumption DEF Objects, TypeOK
<1>2. steps[t] # <<>> /\ steps[t][1] = "menu" /\ at' = at
  BY Plans DEF Edits, Labels, TuiSteps
<1>3. \A p \in Objects \ {t} : mem'[p] = mem[p] /\ steps'[p] = steps[p]
  BY PlanTui
<1>4. \A p \in Objects \ {t} : steps[p] = <<>>
  BY <1>1, <1>2, Partner, NamesAssumption
<1>5. steps'[t] # <<>> /\ steps'[t][1] = "save"
  <2>1. steps'[t] = <<"save", "menu">> \/ steps'[t] = <<"save", "load", "menu">>
    BY <1>1 DEF Edits, TypeOK
  <2> QED BY <2>1
<1>6. at'[t] = 1
  BY <1>1, <1>2 DEF StepsInv
<1>7. mem[t].repos = Deeds(3) /\ mem[t].inst = Deeds(4)
  BY <1>1, <1>2, Calm, FileNames
<1>8. mem'[t].repos = Deeds(3)' /\ mem'[t].inst = Deeds(4)'
  <2>1. ASSUME NEW r \in Repos, mem' = [mem EXCEPT ![t].repos = @ \cup {r}],
               did' = did \cup {r}
        PROVE  mem'[t].repos = Deeds(3)' /\ mem'[t].inst = Deeds(4)'
    <3>1. mem'[t].repos = mem[t].repos \cup {r} /\ mem'[t].inst = mem[t].inst
      BY <1>1, <2>1 DEF TypeOK, Databases
    <3> QED BY <1>7, <2>1, <3>1, DeedsChange
  <2>2. ASSUME NEW r \in mem[t].repos, mem' = [mem EXCEPT ![t].repos = @ \ {r}],
               did' = did \ {r}
        PROVE  mem'[t].repos = Deeds(3)' /\ mem'[t].inst = Deeds(4)'
    <3>1. mem'[t].repos = mem[t].repos \ {r} /\ mem'[t].inst = mem[t].inst /\ r \in Repos
      BY <1>1, <2>2 DEF TypeOK, Databases
    <3> QED BY <1>7, <2>2, <3>1, DeedsChange
  <2>3. ASSUME NEW n \in mem[t].inst, mem' = [mem EXCEPT ![t].inst = @ \ {n}],
               did' = did \ {n}
        PROVE  mem'[t].repos = Deeds(3)' /\ mem'[t].inst = Deeds(4)'
    <3>1. mem'[t].inst = mem[t].inst \ {n} /\ mem'[t].repos = mem[t].repos /\ n \in Names
      BY <1>1, <2>3 DEF TypeOK, Databases
    <3> QED BY <1>7, <2>3, <3>1, DeedsChange
  <2> QED BY <2>1, <2>2, <2>3 DEF Edits
<1>9. \A f \in {3, 4} : mem'[t][Files[f]] = Deeds(f)'
  BY <1>8, FileNames
<1> QED BY <1>1, <1>2, <1>3, <1>4, <1>5, <1>6, <1>9, DeedStep


(* A command or a TUI starts, when nothing else runs. *)
LEMMA KeptStarts ==
  ASSUME TypeOK, StepsInv, CallInv, OneRuns, NEW o \in Objects, Concurrency = 1,
         (o \in Clients /\ Command(o)) \/ (o \in Tuis /\ Opens(o)),
         \A p \in Objects, f \in {3, 4} : Good(p, f), \A f \in {3, 4} : Kept(f)
  PROVE  (\A p \in Objects, f \in {3, 4} : Good(p, f)') /\ \A f \in {3, 4} : Kept(f)'
<1>1. \A p \in Objects : steps[p] = <<>>
  BY NothingRuns DEF Command, Opens
<1>2. /\ file' = file /\ did' = did /\ mem' = mem /\ at' = at
      /\ \A p \in Objects \ {o} : steps'[p] = steps[p]
  BY DEF Command, Opens, TypeOK
<1>3. steps'[o][1] = "load"
  <2>1. CASE Command(o)
    BY <2>1 DEF Command, Life, TypeOK
  <2>2. CASE Opens(o)
    BY <2>2 DEF Opens, TypeOK
  <2> QED BY <2>1, <2>2
<1>4. mem[o].repos = {} /\ mem[o].inst = {} /\ at[o] = 1
  BY <1>1 DEF StepsInv, Empty
<1>5. ASSUME NEW f \in {3, 4} PROVE Kept(f)'
  <2>1. \A p \in Objects : ~Owes(p, f)
    BY <1>1 DEF Owes
  <2> QED BY <1>2, <2>1 DEF Kept, Deeds
<1>6. ASSUME NEW f \in {3, 4} PROVE Good(o, f)'
  <2>1. mem[o][Files[f]] = {}
    BY <1>4, FileNames
  <2> QED BY <1>2, <1>3, <1>4, <2>1 DEF Good, Behind
<1>7. ASSUME NEW p \in Objects, p # o, NEW f \in {3, 4} PROVE Good(p, f)'
  BY <1>1, <1>2, <1>7 DEF Good
<1> QED BY <1>5, <1>6, <1>7

(* A TUI calls a command. *)
LEMMA KeptCalls ==
  ASSUME TypeOK, StepsInv, CallInv, OneRuns, NEW t \in Tuis, Calls(t),
         \A p \in Objects, f \in {3, 4} : Good(p, f), \A f \in {3, 4} : Kept(f)
  PROVE  (\A p \in Objects, f \in {3, 4} : Good(p, f)') /\ \A f \in {3, 4} : Kept(f)'
<1>1. t \in Objects /\ t \notin Clients
  BY NamesAssumption DEF Objects
<1>2. /\ steps[t] # <<>> /\ steps[t][1] = "menu"
      /\ file' = file /\ did' = did /\ mem' = mem /\ at' = at
  BY Plans DEF Calls, Labels, TuiSteps
<1>3. PICK c \in Clients :
        /\ steps[c] = <<>> /\ steps'[c][1] = "load"
        /\ \A p \in Objects \ {c, t} : steps'[p] = steps[p]
  BY PlanCalls
<1>4. c \in Objects /\ mem[c].repos = {} /\ mem[c].inst = {} /\ at[c] = 1
  BY <1>3 DEF Objects, StepsInv, Empty
<1>5. \A f \in {3, 4} : mem[t][Files[f]] = Deeds(f)
  BY <1>1, <1>2, Calm
<1>6. ASSUME NEW f \in {3, 4} PROVE Kept(f)'
  <2>1. ~Owes(t, f)
    BY <1>2 DEF Owes
  <2>2. file[Files[f]] = Deeds(f)
    BY <1>1, <1>2, <2>1, OnlyOwes
  <2> QED BY <1>2, <2>2 DEF Kept, Deeds
<1>7. ASSUME NEW f \in {3, 4} PROVE Good(c, f)'
  <2>1. mem[c][Files[f]] = {}
    BY <1>4, FileNames
  <2> QED BY <1>2, <1>3, <1>4, <2>1 DEF Good, Behind
<1>8. ASSUME NEW f \in {3, 4} PROVE Good(t, f)'
  BY <1>2, <1>5 DEF Good, Deeds
<1>9. ASSUME NEW p \in Objects, p \notin {c, t}, NEW f \in {3, 4} PROVE Good(p, f)'
  BY <1>2, <1>3, <1>9, SameGood
<1> QED BY <1>6, <1>7, <1>8, <1>9

(* A command ends, and a TUI that called it goes on: it reads the files    *)
(* again, or it has missed nothing. Or a TUI closes.                       *)
LEMMA KeptEnds ==
  ASSUME TypeOK, StepsInv, CallInv, OneRuns, NEW o \in Objects,
         (o \in Clients /\ Ends(o)) \/ (o \in Tuis /\ Quits(o)),
         \A p \in Objects, f \in {3, 4} : Good(p, f), \A f \in {3, 4} : Kept(f)
  PROVE  (\A p \in Objects, f \in {3, 4} : Good(p, f)') /\ \A f \in {3, 4} : Kept(f)'
<1>1. /\ steps[o] # <<>> /\ steps[o][1] \in {"end", "menu"}
      /\ file' = file /\ did' = did /\ at' = at /\ steps'[o] = <<>>
  <2>1. CASE o \in Clients /\ Ends(o)
    BY <2>1, ArgTyped, PlanEnds DEF Ends, At
  <2>2. CASE o \in Tuis /\ Quits(o)
    BY <2>2, Plans DEF Quits, Labels, TuiSteps, TypeOK
  <2> QED BY <2>1, <2>2
<1>2. ASSUME NEW f \in {3, 4} PROVE Kept(f)'
  <2>1. ~Owes(o, f)
    BY <1>1 DEF Owes
  <2>2. file[Files[f]] = Deeds(f)
    BY <1>1, <2>1, OnlyOwes
  <2> QED BY <1>1, <2>2 DEF Kept, Deeds
<1>3. ASSUME NEW p \in Objects, NEW f \in {3, 4} PROVE Good(p, f)'
  <2>1. CASE p = o
    BY <1>1, <2>1 DEF Good
  <2>2. CASE p # o /\ ~(o \in Clients /\ Ends(o) /\ p = caller[o])
    <3>1. mem'[p] = mem[p] /\ steps'[p] = steps[p]
      <4>1. CASE o \in Clients /\ Ends(o)
        BY <2>2, <4>1, PlanEnds
      <4>2. CASE o \in Tuis /\ Quits(o)
        BY <2>2, <4>2, PlanTui
      <4> QED BY <4>1, <4>2
    <3> QED BY <1>1, <3>1, SameGood
  <2>3. CASE p # o /\ o \in Clients /\ Ends(o) /\ p = caller[o]
    <3>1. /\ mem'[p] = mem[p] /\ steps'[p][1] = steps[p][2] /\ steps[p] # <<>>
      <4>1. /\ mem'[p] = mem[p]
            /\ Len(steps[p]) > 1 /\ Len(steps'[p]) = Len(steps[p]) - 1
            /\ \A i \in 1..Len(steps'[p]) : steps'[p][i] = steps[p][i + 1]
        BY <2>3, PlanEnds
      <4>2. steps[p] # <<>> /\ Len(steps[p]) \in Nat
        BY <2>3, NamesAssumption DEF CallInv, Objects, TypeOK
      <4>3. 1 \in 1..Len(steps'[p])
        BY <4>1, <4>2
      <4> QED BY <4>1, <4>2, <4>3
    <3>2. steps[p][1] = "calls" /\ at'[p] = 1
      <4>1. steps[p][1] = "calls"
        BY <2>3, NamesAssumption DEF CallInv, Objects
      <4> QED BY <1>1, <4>1 DEF StepsInv
    <3>3. CASE steps[p][2] = "load"
      BY <1>1, <3>1, <3>2, <3>3 DEF Good, Behind, Deeds
    <3>4. CASE steps[p][2] # "load"
      BY <1>1, <3>1, <3>2, <3>4 DEF Good, Behind, Deeds
    <3> QED BY <3>3, <3>4
  <2> QED BY <2>1, <2>2, <2>3
<1> QED BY <1>2, <1>3

(* Every step keeps the deeds. *)
LEMMA DeedsStep ==
  ASSUME Inv, Concurrency = 1, [Next]_vars PROVE MemInv' /\ FileInv'
<1> USE DEF Inv
<1>1. CASE ~whole'
  BY <1>1 DEF MemInv, FileInv
<1>2. CASE UNCHANGED vars \/ Publishes
  BY <1>2 DEF vars, Publishes, MemInv, FileInv, Behind, Owes, Deeds
<1>3. CASE whole' /\ ~(UNCHANGED vars \/ Publishes)
  <2>1. ASSUME NEW p \in Objects, Killed(p) PROVE FALSE
    BY <1>3, <2>1 DEF Killed
  <2>2. whole
    BY <1>3, <2>1 DEF Next, ObjectStep, Load, SaveOpens, SaveWrites, Asked, ListsRepos,
       FetchesIndex, ClientStep, Command, Ends, Discovers, AsksServer, AddsRepo,
       RemovesRepo, Looks, Gets, TuiStep, Opens, Calls, Edits, Quits
  <2>3. /\ \A p \in Objects, f \in {3, 4} : Good(p, f)
        /\ \A f \in {3, 4} : Kept(f)
    BY <2>2, KeptParts
  <2>4. (\A p \in Objects, f \in {3, 4} : Good(p, f)') /\ \A f \in {3, 4} : Kept(f)'
    <3>1. ASSUME NEW o \in Objects, ObjectStep(o)
          PROVE  (\A p \in Objects, f \in {3, 4} : Good(p, f)') /\ \A f \in {3, 4} : Kept(f)'
      BY <2>3, <3>1, KeptLoad, KeptSave, KeptQuiet DEF ObjectStep
    <3>2. ASSUME NEW c \in Clients, ClientStep(c)
          PROVE  (\A p \in Objects, f \in {3, 4} : Good(p, f)') /\ \A f \in {3, 4} : Kept(f)'
      <4>1. c \in Objects
        BY DEF Objects
      <4> QED BY <2>3, <3>2, <4>1, KeptStarts, KeptEnds, KeptQuiet, KeptCommand DEF ClientStep
    <3>3. ASSUME NEW t \in Tuis, TuiStep(t)
          PROVE  (\A p \in Objects, f \in {3, 4} : Good(p, f)') /\ \A f \in {3, 4} : Kept(f)'
      <4>1. t \in Objects
        BY DEF Objects
      <4> QED BY <2>3, <3>3, <4>1, KeptStarts, KeptEnds, KeptCalls, KeptEdits DEF TuiStep
    <3> QED BY <1>3, <2>1, <3>1, <3>2, <3>3 DEF Next
  <2> QED BY <2>4 DEF MemInv, FileInv, Good, Kept
<1> QED BY <1>1, <1>2, <1>3

-----------------------------------------------------------------------------
(* What the last scan found, and rows of servers.                          *)

(* What the files and every copy of them should say: a row for what the    *)
(* servers that answered offered, those servers, and no row of a server    *)
(* that does not offer it.                                                 *)
Facts == {"rows", "servers", "ghosts"}
Place(x) == IF x = "servers" THEN 2 ELSE 1
Claimed(x) == IF x = "ghosts" THEN whole ELSE scanner = "dlr"

Fine(d, x) ==
  /\ x = "rows" => \A s \in reached : \A n \in seen[s] : d.pkgs[n] # None
  /\ x = "servers" => reached \subseteq d.srvs
  /\ x = "ghosts" => \A n \in Names : d.pkgs[n] \in Servers => n \in seen[d.pkgs[n]]

(* o has still to read it, or to save it. *)
Unread(o, x) == x # "ghosts" /\ steps[o][1] = "load" /\ at[o] <= Place(x)
Unsaved(o, x) ==
  /\ steps[o] # <<>>
  /\ \/ steps[o][1] = "servers"
     \/ steps[o][1] \in {"save", "write"} /\ at[o] <= Place(x)

Has(o, x) == Claimed(x) /\ steps[o] # <<>> => Unread(o, x) \/ Fine(mem[o], x)
Stored(x) == Claimed(x) => Fine(file, x) \/ \E o \in Objects : Unsaved(o, x)

(* A scan that asks the servers saves next. The servers that dlr has still *)
(* to ask did not answer yet, and what was counted is no row of theirs.    *)
Asks(o) ==
  /\ \A i \in 1..Len(steps[o]) :
       /\ steps[o][i] = "fetch" => i = 1 /\ todo[o] \subseteq Repos
       /\ steps[o][i] = "servers" => i + 1 <= Len(steps[o]) /\ steps[o][i + 1] = "save"
  /\ steps[o] # <<>> /\ steps[o][1] = "servers" =>
       /\ scanner = IF caller[o] = None THEN "dlr" ELSE "tui"
       /\ caller[o] = None =>
            /\ reached \cap todo[o] = {}
            /\ \A s \in reached : \A n \in seen[s] : mem[o].pkgs[n] \notin todo[o]

ScanInv ==
  /\ \A o \in Objects : Asks(o)
  /\ \A x \in Facts : Stored(x) /\ \A o \in Objects : Has(o, x)

(* What a database says depends on who was reached and what was seen.      *)
LEMMA SameFine ==
  ASSUME NEW x \in Facts, NEW d, seen' = seen, x # "ghosts" => reached' = reached
  PROVE  Fine(d, x)' <=> Fine(d, x)
BY DEF Fine

(* A database with the same rows and servers, or more of them. *)
LEMMA RowsFine ==
  ASSUME TypeOK, NEW m \in Databases, NEW d, NEW x \in Facts, Fine(m, x),
         m.srvs \subseteq d.srvs,
         \A n \in Names : d.pkgs[n] = m.pkgs[n] \/ d.pkgs[n] \in Repos \cup {Nowhere}
  PROVE  Fine(d, x)
<1>1. \A s \in reached : seen[s] \subseteq Names
  BY DEF TypeOK
<1>2. \A y \in Repos \cup {Nowhere} : y # None /\ y \notin Servers
  BY NamesAssumption DEF Sources
<1>3. CASE x = "rows"
  BY <1>1, <1>2, <1>3 DEF Fine
<1>4. CASE x = "servers"
  BY <1>4 DEF Fine
<1>5. CASE x = "ghosts"
  BY <1>2, <1>5 DEF Fine
<1> QED BY <1>3, <1>4, <1>5 DEF Facts

LEMMA UpsertFine ==
  ASSUME TypeOK, NEW m \in Databases, NEW r \in Repos, NEW x \in Facts, Fine(m, x)
  PROVE  Fine(Upsert(m, r), x) /\ Fine(Adds(m, r), x)
<1>1. r \in Sources
  BY DEF Sources
<1>2. Upsert(m, r) \in Databases /\ Upsert(m, r).srvs = m.srvs
  BY <1>1, UpsertTyped
<1>3. Upsert(m, r).pkgs = [n \in Names |-> IF n \in offers[r] THEN r ELSE m.pkgs[n]]
  BY Fields DEF Upsert, Databases
<1>4. \A n \in Names : Upsert(m, r).pkgs[n] = m.pkgs[n] \/ Upsert(m, r).pkgs[n] \in Repos
  BY <1>3
<1>5. Adds(m, r).srvs = m.srvs /\ Adds(m, r).pkgs = Upsert(m, r).pkgs
  BY <1>2, AddsTyped, Fields DEF Adds, Databases
<1> QED BY <1>2, <1>4, <1>5, RowsFine

LEMMA KnowsFine ==
  ASSUME TypeOK, NEW m \in Databases, NEW s \in Servers, NEW x \in Facts, Fine(m, x)
  PROVE  Fine(Knows(m, s), x)
<1>1. Knows(m, s).pkgs = m.pkgs /\ m.srvs \subseteq Knows(m, s).srvs
  BY KnowsTyped, Fields DEF Knows, Databases
<1> QED BY <1>1, RowsFine

LEMMA MarksFine ==
  ASSUME TypeOK, NEW m \in Databases, NEW n \in Names, NEW x \in Facts, Fine(m, x)
  PROVE  Fine(Marks(m, n), x)
<1> DEFINE w == [m EXCEPT !.inst = m.inst \cup {n}]
<1>1. w \in Databases /\ w.pkgs = m.pkgs
  BY FieldSet, Fields
<1>2. Marks(m, n) = [w EXCEPT !.pkgs = [w.pkgs EXCEPT ![n] = Nowhere]]
  BY DEF Marks
<1> HIDE DEF w
<1>3. Marks(m, n).pkgs = [m.pkgs EXCEPT ![n] = Nowhere]
  BY <1>1, <1>2 DEF Databases
<1>4. \A k \in Names : Marks(m, n).pkgs[k] \in {m.pkgs[k], Nowhere}
  BY <1>3, Fields
<1> QED BY <1>4, MarksTyped, RowsFine

LEMMA EmptyFine == Fine(Empty, "ghosts")
BY NamesAssumption DEF Fine, Empty, Sources

(* Whoever works and neither saves nor asks servers: all is saved. *)
LEMMA AllSaved ==
  ASSUME TypeOK, CallInv, OneRuns, NEW o \in Objects, NEW x, steps[o] # <<>>,
         steps[o][1] # "calls", ~Unsaved(o, x)
  PROVE  \A p \in Objects : ~Unsaved(p, x)
<1>1. ASSUME NEW p \in Objects, Unsaved(p, x) PROVE FALSE
  <2>1. p # o /\ steps[p] # <<>> /\ steps[p][1] \in {"servers", "save", "write"}
    BY <1>1 DEF Unsaved
  <2> QED BY <2>1, Partner, NamesAssumption
<1> QED BY <1>1

(* A step that writes no file while all is saved: everybody has what they  *)
(* had, or starts to read.                                                 *)
LEMMA FactsStay ==
  ASSUME TypeOK, NEW x \in Facts, Stored(x), \A p \in Objects : Has(p, x),
         \A p \in Objects : ~Unsaved(p, x),
         file' = file, seen' = seen, x # "ghosts" => reached' = reached,
         Claimed(x)' => Claimed(x),
         \A p \in Objects :
           \/ steps'[p] = <<>>
           \/ steps'[p] = steps[p] /\ at'[p] = at[p] /\ mem'[p] = mem[p]
           \/ steps'[p][1] = "load" /\ at'[p] = 1 /\ mem'[p] = Empty
           \/ /\ steps[p] # <<>> /\ steps[p][1] # "load"
              /\ Fine(mem[p], x) => Fine(mem'[p], x)
  PROVE  Stored(x)' /\ \A p \in Objects : Has(p, x)'
<1>1. \A d : Fine(d, x)' <=> Fine(d, x)
  BY SameFine
<1>2. Stored(x)'
  <2>1. Claimed(x) => Fine(file, x)
    BY DEF Stored
  <2> QED BY <1>1, <2>1 DEF Stored
<1>3. ASSUME NEW p \in Objects, Claimed(x)', steps'[p] # <<>>
      PROVE  Unread(p, x)' \/ Fine(mem'[p], x)
  <2>1. CASE steps'[p] = steps[p] /\ at'[p] = at[p] /\ mem'[p] = mem[p]
    BY <1>3, <2>1 DEF Has, Unread, Claimed
  <2>2. CASE steps'[p][1] = "load" /\ at'[p] = 1 /\ mem'[p] = Empty
    BY <2>2, EmptyFine DEF Unread, Place
  <2>3. CASE /\ steps[p] # <<>> /\ steps[p][1] # "load"
             /\ Fine(mem[p], x) => Fine(mem'[p], x)
    BY <1>3, <2>3 DEF Has, Unread
  <2> QED BY <1>3, <2>1, <2>2, <2>3
<1>4. \A p \in Objects : Fine(mem[p], x)' <=> Fine(mem'[p], x)
  BY DEF Fine
<1> QED BY <1>2, <1>3, <1>4 DEF Has

(* Work that neither reads nor writes a file nor asks a server.            *)
Works(o) ==
  \/ ListsRepos(o) \/ FetchesIndex(o)
  \/ Asked(o) /\ steps[o][1] = "fetch"
  \/ o \in Clients /\ (AddsRepo(o) \/ RemovesRepo(o) \/ Looks(o) \/ Gets(o))
  \/ o \in Tuis /\ Edits(o)

LEMMA WorksMem ==
  ASSUME TypeOK, StepsInv, NEW o \in Objects, Asks(o), Works(o)
  PROVE  /\ steps[o] # <<>>
         /\ steps[o][1] \in {"repos", "fetch", "addrepo", "removerepo", "install",
                             "download", "get_install", "get_download", "menu"}
         /\ UNCHANGED <<file, at, caller, whole, seen, reached, scanner>>
         /\ \A p \in Objects \ {o} :
              steps'[p] = steps[p] /\ mem'[p] = mem[p] /\ todo'[p] = todo[p]
         /\ \A x \in Facts : Fine(mem[o], x) => Fine(mem'[o], x)
<1>1. steps[o] # <<>>
      /\ steps[o][1] \in {"repos", "fetch", "addrepo", "removerepo", "install",
                          "download", "get_install", "get_download", "menu"}
  <2>1. CASE Edits(o)
    BY <2>1, Plans DEF Edits, Labels, TuiSteps
  <2>2. CASE ~Edits(o)
    BY <2>2, ArgTyped DEF Works, ListsRepos, FetchesIndex, Asked, AddsRepo, RemovesRepo,
                          Looks, Gets, At
  <2> QED BY <2>1, <2>2
<1>2. /\ UNCHANGED <<file, at, caller, whole, seen, reached, scanner>>
      /\ \A p \in Objects \ {o} :
           steps'[p] = steps[p] /\ mem'[p] = mem[p] /\ todo'[p] = todo[p]
  BY DEF Works, ListsRepos, FetchesIndex, Asked, AddsRepo, RemovesRepo, Looks,
         FindsServer, Gets, Edits, Then, TypeOK
<1>3. mem[o] \in Databases
  BY DEF TypeOK
<1>4. ASSUME NEW x \in Facts, Fine(mem[o], x) PROVE Fine(mem'[o], x)
  <2>1. CASE FetchesIndex(o)
    <3>1. PICK r \in todo[o] : mem' = mem \/ mem' = [mem EXCEPT ![o] = Upsert(@, r)]
      BY <2>1 DEF FetchesIndex
    <3>2. r \in Repos
      <4>1. steps[o] # <<>> /\ steps[o][1] = "fetch" /\ 1 \in 1..Len(steps[o])
        BY <2>1, ArgTyped DEF FetchesIndex, At
      <4> QED BY <4>1 DEF Asks
    <3>3. mem'[o] = mem[o] \/ mem'[o] = Upsert(mem[o], r)
      BY <3>1 DEF TypeOK
    <3> QED BY <1>3, <1>4, <3>2, <3>3, UpsertFine
  <2>2. CASE o \in Clients /\ AddsRepo(o)
    <3>1. arg[o] \in Repos
      BY <2>2, ArgTyped DEF AddsRepo, At
    <3>2. mem'[o] = mem[o] \/ mem'[o] = Adds(mem[o], arg[o])
      BY <2>2 DEF AddsRepo, TypeOK
    <3> QED BY <1>3, <1>4, <3>1, <3>2, UpsertFine
  <2>3. CASE o \in Clients /\ Looks(o)
    <3>1. mem' = mem \/ \E s \in Servers : mem' = [mem EXCEPT ![o] = Knows(@, s)]
      BY <2>3 DEF Looks, FindsServer
    <3>2. mem'[o] = mem[o] \/ \E s \in Servers : mem'[o] = Knows(mem[o], s)
      BY <3>1 DEF TypeOK
    <3> QED BY <1>3, <1>4, <3>2, KnowsFine
  <2>4. CASE o \in Clients /\ Gets(o)
    <3>1. mem'[o] = mem[o] \/ (mem'[o] = Marks(mem[o], arg[o]) /\ At(o, "get_install"))
      BY <2>4 DEF Gets, TypeOK
    <3>2. At(o, "get_install") => arg[o] \in Names
      BY <1>1, ArgTyped DEF At
    <3> QED BY <1>3, <1>4, <3>1, <3>2, MarksFine
  <2>5. CASE (o \in Clients /\ RemovesRepo(o)) \/ (o \in Tuis /\ Edits(o))
    <3>1. \/ mem' = mem
          \/ \E y : mem' = [mem EXCEPT ![o] = [mem[o] EXCEPT !.repos = y]]
          \/ \E y : mem' = [mem EXCEPT ![o] = [mem[o] EXCEPT !.inst = y]]
      BY <2>5 DEF RemovesRepo, Edits, TypeOK
    <3>2. mem'[o].pkgs = mem[o].pkgs /\ mem'[o].srvs = mem[o].srvs
      BY <1>3, <3>1 DEF TypeOK, Databases
    <3> QED BY <1>3, <1>4, <3>2, RowsFine
  <2>6. CASE ListsRepos(o) \/ Asked(o)
    BY <1>4, <2>6 DEF ListsRepos, Asked
  <2> QED BY <2>1, <2>2, <2>3, <2>4, <2>5, <2>6 DEF Works
<1> QED BY <1>1, <1>2, <1>4

LEMMA FactsWork ==
  ASSUME TypeOK, StepsInv, CallInv, OneRuns, NEW o \in Objects, Asks(o), Works(o),
         NEW x \in Facts, Stored(x), \A p \in Objects : Has(p, x)
  PROVE  Stored(x)' /\ \A p \in Objects : Has(p, x)'
<1>1. /\ steps[o] # <<>> /\ steps[o][1] \notin {"calls", "load", "save", "write", "servers"}
      /\ UNCHANGED <<file, at, whole, seen, reached, scanner>>
      /\ \A p \in Objects \ {o} : steps'[p] = steps[p] /\ mem'[p] = mem[p]
      /\ Fine(mem[o], x) => Fine(mem'[o], x)
  BY WorksMem
<1>2. \A p \in Objects : ~Unsaved(p, x)
  BY <1>1, AllSaved DEF Unsaved
<1>3. Claimed(x)' => Claimed(x)
  BY <1>1 DEF Claimed
<1>4. \A p \in Objects :
        \/ steps'[p] = steps[p] /\ at'[p] = at[p] /\ mem'[p] = mem[p]
        \/ /\ steps[p] # <<>> /\ steps[p][1] # "load"
           /\ Fine(mem[p], x) => Fine(mem'[p], x)
  BY <1>1
<1> QED BY <1>1, <1>2, <1>3, <1>4, FactsStay

(* A command or a TUI starts, calls, or ends. *)
LEMMA FactsTurn ==
  ASSUME TypeOK, StepsInv, CallInv, OneRuns, Concurrency = 1, NEW o \in Objects,
         \/ o \in Clients /\ (Command(o) \/ Ends(o))
         \/ o \in Tuis /\ (Opens(o) \/ Calls(o) \/ Quits(o)),
         NEW x \in Facts, Stored(x), \A p \in Objects : Has(p, x)
  PROVE  Stored(x)' /\ \A p \in Objects : Has(p, x)'
<1>1. /\ UNCHANGED <<file, whole, seen, reached, scanner, at>>
      /\ Claimed(x)' => Claimed(x)
  BY DEF Command, Ends, Opens, Calls, Quits, Claimed
<1>2. \A p \in Objects : ~Unsaved(p, x)
  <2>1. CASE Command(o) \/ Opens(o)
    BY <2>1, NothingRuns DEF Command, Opens, Unsaved
  <2>2. CASE Ends(o)
    <3>1. steps[o] # <<>> /\ steps[o][1] = "end"
      BY <2>2, ArgTyped DEF Ends, At
    <3> QED BY <3>1, AllSaved DEF Unsaved
  <2>3. CASE Calls(o) \/ Quits(o)
    <3>1. steps[o] # <<>> /\ steps[o][1] = "menu"
      BY <2>3, Plans DEF Calls, Quits, Labels, TuiSteps
    <3> QED BY <3>1, AllSaved DEF Unsaved
  <2> QED BY <2>1, <2>2, <2>3
<1>3. ASSUME NEW p \in Objects
      PROVE  \/ steps'[p] = <<>>
             \/ steps'[p] = steps[p] /\ at'[p] = at[p] /\ mem'[p] = mem[p]
             \/ steps'[p][1] = "load" /\ at'[p] = 1 /\ mem'[p] = Empty
             \/ /\ steps[p] # <<>> /\ steps[p][1] # "load"
                /\ Fine(mem[p], x) => Fine(mem'[p], x)
  <2>1. CASE o \in Clients /\ Command(o)
    <3>1. PICK k : steps' = [steps EXCEPT ![o] = Life(k)] /\ k \in Cmds
      BY <2>1 DEF Command
    <3>2. "load" \in Labels /\ k \in Labels /\ "end" \in Labels
      BY <3>1, CmdsAssumption DEF Labels, ClientSteps
    <3>3. Life(k)[1] = "load" /\ mem' = mem /\ steps[o] = <<>>
      BY <2>1, <3>2, Plans DEF Command, Life
    <3>4. at[o] = 1 /\ mem[o] = Empty
      BY <3>3 DEF StepsInv
    <3> QED BY <1>1, <3>1, <3>3, <3>4 DEF TypeOK
  <2>2. CASE o \in Clients /\ Ends(o)
    <3>1. CASE p = o
      BY <2>2, <3>1, PlanEnds
    <3>2. CASE p # o /\ p # caller[o]
      BY <1>1, <2>2, <3>2, PlanEnds
    <3>3. CASE p # o /\ p = caller[o]
      <4>1. steps[p] # <<>> /\ steps[p][1] = "calls"
        BY <3>3, NamesAssumption DEF CallInv, Objects
      <4>2. mem'[p] = mem[p]
        BY <2>2, <3>3, PlanEnds
      <4> QED BY <4>1, <4>2
    <3> QED BY <3>1, <3>2, <3>3
  <2>3. CASE o \in Tuis /\ Opens(o)
    <3>1. /\ steps'[o] = <<"load", "load", "menu">> /\ mem' = mem /\ steps[o] = <<>>
          /\ \A u \in Objects \ {o} : steps'[u] = steps[u]
      BY <2>3 DEF Opens, TypeOK
    <3>2. steps'[o][1] = "load"
      BY <3>1, Plans DEF Labels, TuiSteps
    <3>3. at[o] = 1 /\ mem[o] = Empty
      BY <3>1 DEF StepsInv
    <3> QED BY <1>1, <3>1, <3>2, <3>3
  <2>4. CASE o \in Tuis /\ Calls(o)
    <3>1. PICK c \in Clients :
            /\ steps[c] = <<>> /\ steps'[c][1] = "load"
            /\ \A u \in Objects \ {c, o} : steps'[u] = steps[u]
      BY <2>4, PlanCalls
    <3>2. mem' = mem /\ steps[o] # <<>> /\ steps[o][1] = "menu"
      BY <2>4, Plans DEF Calls, Labels, TuiSteps
    <3>3. at[c] = 1 /\ mem[c] = Empty
      BY <3>1 DEF StepsInv, Objects
    <3> QED BY <1>1, <3>1, <3>2, <3>3
  <2>5. CASE o \in Tuis /\ Quits(o)
    <3>1. steps'[o] = <<>> /\ \A u \in Objects \ {o} : steps'[u] = steps[u] /\ mem'[u] = mem[u]
      BY <2>5, PlanTui DEF Quits, TypeOK
    <3> QED BY <1>1, <3>1
  <2> QED BY <2>1, <2>2, <2>3, <2>4, <2>5
<1> QED BY <1>1, <1>2, <1>3, FactsStay

LEMMA LoadRows ==
  ASSUME TypeOK, NEW o \in Objects, Load(o)
  PROVE  /\ mem'[o].pkgs = IF at[o] = 1 THEN Over(file.pkgs, mem[o].pkgs) ELSE mem[o].pkgs
         /\ mem'[o].srvs = IF at[o] = 2 THEN mem[o].srvs \cup file.srvs ELSE mem[o].srvs
<1>1. mem[o] \in Databases /\ at[o] \in 1..4
  BY FileNames DEF TypeOK
<1>2. mem'[o] = [mem[o] EXCEPT ![Files[at[o]]] =
                   IF Files[at[o]] = "pkgs" THEN Over(file[Files[at[o]]], @)
                                            ELSE @ \cup file[Files[at[o]]]]
  BY DEF Load, TypeOK
<1>3. CASE at[o] = 1
  BY <1>1, <1>2, <1>3, FileNames DEF Databases
<1>4. CASE at[o] = 2
  BY <1>1, <1>2, <1>4, FileNames DEF Databases
<1>5. CASE at[o] = 3
  BY <1>1, <1>2, <1>5, FileNames DEF Databases
<1>6. CASE at[o] = 4
  BY <1>1, <1>2, <1>6, FileNames DEF Databases
<1> QED BY <1>1, <1>3, <1>4, <1>5, <1>6

(* Reading the file gives what the file says and what was there.           *)
LEMMA FactsLoad ==
  ASSUME TypeOK, StepsInv, CallInv, OneRuns, NEW o \in Objects, Load(o),
         NEW x \in Facts, Stored(x), \A p \in Objects : Has(p, x)
  PROVE  Stored(x)' /\ \A p \in Objects : Has(p, x)'
<1>1. /\ steps[o] # <<>> /\ steps[o][1] = "load"
      /\ UNCHANGED <<file, whole, seen, reached, scanner>>
  BY ArgTyped DEF Load, At
<1>2. \A p \in Objects : ~Unsaved(p, x)
  BY <1>1, AllSaved DEF Unsaved
<1>3. /\ Claimed(x)' <=> Claimed(x)
      /\ \A d : Fine(d, x)' <=> Fine(d, x)
  BY <1>1, SameFine DEF Claimed
<1>4. Claimed(x) => Fine(file, x)
  BY <1>2 DEF Stored
<1>5. Stored(x)'
  BY <1>1, <1>3, <1>4 DEF Stored
<1>6. ASSUME NEW p \in Objects, p # o PROVE Has(p, x)'
  <2>1. mem'[p] = mem[p] /\ at'[p] = at[p] /\ steps'[p] = steps[p]
    <3>1. mem'[p] = mem[p]
      BY <1>6, LoadEffect
    <3>2. at'[p] = at[p]
      BY <1>6, AdvanceSteps DEF Load
    <3>3. steps'[p] = steps[p]
      BY <1>6 DEF Load, Advance, Then, TypeOK
    <3> QED BY <3>1, <3>2, <3>3
  <2> QED BY <1>1, <2>1 DEF Has, Claimed, Unread, Fine
<1>7. ASSUME Claimed(x) PROVE Unread(o, x)' \/ Fine(mem'[o], x)
  <2>1. mem[o] \in Databases /\ file \in Databases /\ at[o] \in 1..4
    BY FileNames DEF TypeOK
  <2>2. ASSUME x = "rows" PROVE Fine(mem'[o], x)
    <3>1. \A s \in reached : seen[s] \subseteq Names
      BY DEF TypeOK
    <3>2. CASE at[o] = 1
      BY <1>4, <1>7, <2>2, <3>1, <3>2, LoadRows DEF Fine, Over
    <3>3. CASE at[o] # 1
      <4>1. ~Unread(o, x)
        BY <2>1, <2>2, <3>3 DEF Unread, Place
      <4>2. Fine(mem[o], x)
        BY <1>1, <1>7, <4>1 DEF Has
      <4> QED BY <2>2, <3>3, <4>2, LoadRows DEF Fine
    <3> QED BY <3>2, <3>3
  <2>3. ASSUME x = "servers" PROVE Unread(o, x)' \/ Fine(mem'[o], x)
    <3>1. CASE at[o] = 2
      BY <1>4, <1>7, <2>3, <3>1, LoadRows DEF Fine
    <3>2. CASE at[o] = 1
      <4>1. PICK q \in {<<>>, <<"load">>} :
              /\ Then(o, q)
              /\ q = <<>> => at[o] = 4
              /\ q # <<>> => at'[o] = at[o] + 1
        BY AdvanceSteps DEF Load
      <4>2. q = <<"load">> /\ at'[o] = 2
        BY <3>2, <4>1
      <4>3. q \in Seq(Labels) /\ q[1] = "load" /\ q # <<>>
        BY <4>2, Plans, EmptySeq DEF Labels, TuiSteps
      <4>4. steps'[o][1] = "load"
        BY <1>1, <4>1, <4>3, ThenFirst
      <4> QED BY <2>3, <4>2, <4>4 DEF Unread, Place
    <3>3. CASE at[o] > 2
      <4>1. ~Unread(o, x) /\ at[o] # 2
        BY <2>1, <2>3, <3>3 DEF Unread, Place
      <4>2. Fine(mem[o], x)
        BY <1>1, <1>7, <4>1 DEF Has
      <4> QED BY <2>3, <4>1, <4>2, LoadRows DEF Fine
    <3> QED BY <2>1, <3>1, <3>2, <3>3
  <2>4. ASSUME x = "ghosts" PROVE Fine(mem'[o], x)
    <3>1. Fine(mem[o], x)
      BY <1>1, <1>7, <2>4 DEF Has, Unread
    <3>2. \A n \in Names : mem'[o].pkgs[n] \in {file.pkgs[n], mem[o].pkgs[n]}
      BY LoadRows DEF Over
    <3> QED BY <1>4, <1>7, <2>4, <3>1, <3>2 DEF Fine
  <2> QED BY <2>2, <2>3, <2>4 DEF Facts
<1>8. Has(o, x)'
  <2>1. Fine(mem[o], x)' <=> Fine(mem'[o], x)
    BY <1>1 DEF Fine
  <2> QED BY <1>3, <1>7, <2>1 DEF Has
<1> QED BY <1>5, <1>6, <1>8

LEMMA SaveRows ==
  ASSUME TypeOK, NEW o \in Objects, SaveOpens(o) \/ SaveWrites(o)
  PROVE  /\ at[o] # 1 => file'.pkgs = file.pkgs
         /\ at[o] # 2 => file'.srvs = file.srvs
         /\ SaveWrites(o) => /\ at[o] = 1 => file'.pkgs = mem[o].pkgs
                             /\ at[o] = 2 => file'.srvs = mem[o].srvs
<1>1. mem[o] \in Databases /\ file \in Databases /\ at[o] \in 1..4
  BY FileNames DEF TypeOK
<1>2. PICK d \in {Empty, mem[o]} :
        /\ file' = [file EXCEPT ![Files[at[o]]] = d[Files[at[o]]]]
        /\ SaveWrites(o) => d = mem[o]
  <2>1. CASE SaveWrites(o)
    BY <2>1 DEF SaveWrites
  <2>2. CASE ~SaveWrites(o)
    BY <2>2 DEF SaveOpens
  <2> QED BY <2>1, <2>2
<1>3. CASE at[o] = 1
  BY <1>1, <1>2, <1>3, FileNames DEF Databases
<1>4. CASE at[o] = 2
  BY <1>1, <1>2, <1>4, FileNames DEF Databases
<1>5. CASE at[o] = 3
  BY <1>1, <1>2, <1>5, FileNames DEF Databases
<1>6. CASE at[o] = 4
  BY <1>1, <1>2, <1>6, FileNames DEF Databases
<1> QED BY <1>1, <1>3, <1>4, <1>5, <1>6

(* What o has in memory it writes, file by file. *)
LEMMA FactsSave ==
  ASSUME TypeOK, StepsInv, CallInv, OneRuns, NEW o \in Objects,
         SaveOpens(o) \/ SaveWrites(o),
         NEW x \in Facts, Stored(x), \A p \in Objects : Has(p, x)
  PROVE  Stored(x)' /\ \A p \in Objects : Has(p, x)'
<1>1. /\ steps[o] # <<>> /\ steps[o][1] \in {"save", "write"} /\ mem' = mem
      /\ UNCHANGED <<whole, seen, reached, scanner>>
      /\ \A p \in Objects \ {o} : steps'[p] = steps[p]
  BY ArgTyped DEF SaveOpens, SaveWrites, At, Advance, Then, TypeOK
<1>2. /\ at[o] \in 1..4 /\ Place(x) \in {1, 2}
      /\ \A p \in Objects \ {o} : at'[p] = at[p]
  BY AdvanceSteps, FileNames DEF TypeOK, SaveOpens, SaveWrites, Place
<1>3. /\ Claimed(x)' <=> Claimed(x)
      /\ \A d : Fine(d, x)' <=> Fine(d, x)
  BY <1>1, SameFine DEF Claimed
<1>4. Claimed(x) => Fine(mem[o], x)
  BY <1>1 DEF Has, Unread
<1>5. ASSUME NEW p \in Objects PROVE Has(p, x)'
  <2>1. Fine(mem[p], x)' <=> Fine(mem[p], x)
    BY <1>1 DEF Fine
  <2>2. CASE p = o
    BY <1>3, <1>4, <2>1, <2>2 DEF Has
  <2>3. CASE p # o
    BY <1>1, <1>2, <1>3, <2>1, <2>3 DEF Has, Unread, Place
  <2> QED BY <2>2, <2>3
<1>6. ASSUME Unsaved(o, x)' PROVE Stored(x)'
  BY <1>6 DEF Stored
<1>7. ASSUME Claimed(x), Fine(file', x) PROVE Stored(x)'
  <2>1. Fine(file, x)' <=> Fine(file', x)
    BY <1>1 DEF Fine
  <2> QED BY <1>7, <2>1 DEF Stored
<1>8. ASSUME Claimed(x), Place(x) < at[o] PROVE Fine(file', x)
  <2>1. ~Unsaved(o, x)
    BY <1>1, <1>2, <1>8 DEF Unsaved
  <2>2. Fine(file, x)
    BY <1>1, <1>8, <2>1, AllSaved DEF Stored
  <2>3. /\ x # "servers" => file'.pkgs = file.pkgs
        /\ x = "servers" => file'.srvs = file.srvs
    BY <1>2, <1>8, SaveRows DEF Place
  <2> QED BY <2>2, <2>3 DEF Fine
<1>9. ASSUME Claimed(x), SaveWrites(o), Place(x) = at[o] PROVE Fine(file', x)
  <2>1. /\ x # "servers" => file'.pkgs = mem[o].pkgs
        /\ x = "servers" => file'.srvs = mem[o].srvs
    BY <1>9, SaveRows DEF Place
  <2> QED BY <1>4, <1>9, <2>1 DEF Fine
<1>10. ASSUME SaveOpens(o), at[o] <= Place(x) PROVE Unsaved(o, x)'
  <2>1. <<"write">> \in Seq(Labels) /\ <<"write">>[1] = "write" /\ <<"write">> # <<>>
    BY Plans, EmptySeq DEF Labels, TuiSteps
  <2>2. steps'[o][1] = "write" /\ steps'[o] # <<>> /\ at' = at
    BY <1>1, <1>10, <2>1, ThenFirst DEF SaveOpens
  <2> QED BY <1>10, <2>2 DEF Unsaved, Place
<1>11. ASSUME SaveWrites(o), at[o] < Place(x) PROVE Unsaved(o, x)'
  <2>1. PICK q \in {<<>>, <<"save">>} :
          /\ Then(o, q)
          /\ q = <<>> => at[o] = 4
          /\ q # <<>> => at'[o] = at[o] + 1
    BY <1>11, AdvanceSteps DEF SaveWrites
  <2>2. q = <<"save">> /\ at'[o] = at[o] + 1 /\ at'[o] <= Place(x)
    BY <1>2, <1>11, <2>1
  <2>3. q \in Seq(Labels) /\ q[1] = "save" /\ q # <<>>
    BY <2>2, Plans, EmptySeq DEF Labels, TuiSteps
  <2>4. steps'[o][1] = "save" /\ steps'[o] # <<>>
    BY <1>1, <2>1, <2>3, ThenFirst
  <2> QED BY <2>2, <2>4 DEF Unsaved, Place
<1>12. Place(x) < at[o] \/ Place(x) = at[o] \/ at[o] < Place(x)
  BY <1>2
<1>13. Place(x) = at[o] \/ at[o] < Place(x) => at[o] <= Place(x)
  BY <1>2
<1>14. Stored(x)'
  <2>1. CASE ~Claimed(x)
    BY <1>3, <2>1 DEF Stored
  <2>2. CASE Claimed(x)
    BY <1>6, <1>7, <1>8, <1>9, <1>10, <1>11, <1>12, <1>13, <2>2
  <2> QED BY <2>1, <2>2
<1> QED BY <1>5, <1>14

LEMMA FactsDiscover ==
  ASSUME TypeOK, StepsInv, CallInv, OneRuns, NEW c \in Clients, Discovers(c),
         NEW x \in Facts, Stored(x), \A p \in Objects : Has(p, x)
  PROVE  Stored(x)' /\ \A p \in Objects : Has(p, x)'
<1>1. /\ c \in Objects /\ steps[c] # <<>> /\ steps[c][1] = "scan"
      /\ UNCHANGED <<file, mem, at, whole, seen>>
  BY ArgTyped DEF Discovers, At, Objects
<1>2. CASE x # "ghosts" /\ reached' = {}
  BY <1>2 DEF Stored, Has, Fine, Facts
<1>3. CASE x = "ghosts" \/ (reached' = reached /\ scanner' = scanner)
  <2>1. \A p \in Objects : ~Unsaved(p, x)
    BY <1>1, AllSaved DEF Unsaved
  <2>2. (Claimed(x)' => Claimed(x)) /\ (x # "ghosts" => reached' = reached)
    BY <1>1, <1>3 DEF Claimed
  <2>3. \A p \in Objects \ {c} : steps'[p] = steps[p]
    BY DEF Discovers, Then, TypeOK
  <2>4. ASSUME NEW p \in Objects
        PROVE  \/ steps'[p] = steps[p] /\ at'[p] = at[p] /\ mem'[p] = mem[p]
               \/ /\ steps[p] # <<>> /\ steps[p][1] # "load"
                  /\ Fine(mem[p], x) => Fine(mem'[p], x)
    BY <1>1, <2>3
  <2> QED BY <1>1, <2>1, <2>2, <2>4, FactsStay
<1> QED BY <1>2, <1>3 DEF Discovers

(* After the servers comes the save. *)
LEMMA FactsAsked ==
  ASSUME TypeOK, StepsInv, CallInv, OneRuns, NEW o \in Objects, Asks(o), Asked(o),
         steps[o][1] = "servers",
         NEW x \in Facts, Stored(x), \A p \in Objects : Has(p, x)
  PROVE  Stored(x)' /\ \A p \in Objects : Has(p, x)'
<1>1. /\ steps[o] # <<>> /\ Then(o, <<>>)
      /\ UNCHANGED <<file, mem, at, whole, seen, reached, scanner>>
  BY DEF Asked, At
<1>2. /\ steps[o] \in Seq(Labels) /\ 1 \in 1..Len(steps[o])
      /\ 2 <= Len(steps[o]) /\ steps[o][2] = "save" /\ at[o] = 1
  BY <1>1, ArgTyped DEF Asks, StepsInv
<1>3. /\ Len(steps'[o]) = Len(steps[o]) - 1 /\ steps'[o] \in Seq(Labels)
      /\ \A i \in 1..Len(steps'[o]) : steps'[o][i] = steps[o][i + 1]
      /\ \A p \in Objects \ {o} : steps'[p] = steps[p]
  <2> DEFINE q == <<>>
             m == Len(steps[o])
  <2>1. q \in Seq(Labels) /\ Len(q) = 0 /\ Then(o, q)
    BY <1>1, Plans
  <2> HIDE DEF q
  <2>2. /\ Len(steps'[o]) = 0 + m - 1 /\ steps' \in [Objects -> Seq(Labels)]
        /\ \A i \in 1..Len(steps'[o]) :
             steps'[o][i] = IF i <= 0 THEN q[i] ELSE steps[o][i - 0 + 1]
        /\ \A p \in Objects \ {o} : steps'[p] = steps[p]
    BY <1>1, <2>1, ThenSteps
  <2>3. m \in Nat /\ 0 + m - 1 = m - 1 /\ \A i \in 1..(m - 1) : ~(i <= 0) /\ i - 0 + 1 = i + 1
    BY <1>2
  <2> HIDE DEF m
  <2>4. Len(steps'[o]) = m - 1 /\ \A i \in 1..(m - 1) : steps'[o][i] = steps[o][i + 1]
    BY <2>2, <2>3
  <2> QED BY <2>2, <2>4 DEF m
<1>4. steps'[o] # <<>> /\ steps'[o][1] = "save"
  <2>1. 1 \in 1..Len(steps'[o]) /\ Len(steps'[o]) # 0
    BY <1>2, <1>3
  <2> QED BY <1>2, <1>3, <2>1
<1>5. Unsaved(o, x)'
  BY <1>1, <1>2, <1>4 DEF Unsaved, Place
<1>6. ASSUME NEW p \in Objects PROVE Has(p, x)'
  <2>1. CASE p = o
    <3>1. Claimed(x) => Fine(mem[o], x)
      BY <1>1 DEF Has, Unread
    <3> QED BY <1>1, <2>1, <3>1 DEF Has, Claimed, Fine
  <2>2. CASE p # o
    BY <1>1, <1>3, <2>2 DEF Has, Claimed, Fine, Unread
  <2> QED BY <2>1, <2>2
<1> QED BY <1>5, <1>6 DEF Stored

(* One server is asked: its rows go, and come again if it gives its list.  *)
LEMMA AsksRows ==
  ASSUME TypeOK, StepsInv, NEW c \in Clients, AsksServer(c)
  PROVE  \E s \in todo[c] \cap Servers :
    LET before == IF caller[c] = None THEN {} ELSE seen[s]
        old(n) == IF mem[c].pkgs[n] = s THEN None ELSE mem[c].pkgs[n]
    IN /\ todo' = [todo EXCEPT ![c] = todo[c] \ {s}]
       /\ \/ /\ reached' = reached /\ seen' = [seen EXCEPT ![s] = before]
             /\ mem[c].srvs \subseteq mem'[c].srvs
             /\ \A n \in Names : mem'[c].pkgs[n] = old(n)
          \/ /\ reached' = reached \cup {s}
             /\ seen' = [seen EXCEPT ![s] = before \cup offers[s]]
             /\ mem'[c].srvs = mem[c].srvs \cup {s}
             /\ \A n \in Names : mem'[c].pkgs[n] = IF n \in offers[s] THEN s ELSE old(n)
<1>1. c \in Objects /\ mem[c] \in Databases
  BY DEF TypeOK, Objects
<1>2. todo[c] \subseteq Servers
  <2>1. steps[c] # <<>> /\ steps[c][1] = "servers" /\ 1 \in 1..Len(steps[c])
    BY <1>1, ArgTyped DEF AsksServer, At
  <2> QED BY <1>1, <2>1 DEF StepsInv
<1>3. PICK s \in todo[c] :
        LET before == IF caller[c] = None THEN {} ELSE seen[s] IN
        /\ todo' = [todo EXCEPT ![c] = @ \ {s}]
        /\ \/ /\ \/ mem' = [mem EXCEPT ![c] = Drops(@, s)]
                 \/ mem' = [mem EXCEPT ![c] = Knows(Drops(@, s), s)]
              /\ seen' = [seen EXCEPT ![s] = before]
              /\ UNCHANGED reached
           \/ /\ mem' = [mem EXCEPT ![c] = Knows(Upsert(Drops(@, s), s), s)]
              /\ seen' = [seen EXCEPT ![s] = before \cup offers[s]]
              /\ reached' = reached \cup {s}
  BY DEF AsksServer
<1>4. s \in Servers /\ s \in Sources
  BY <1>2 DEF Sources
<1> DEFINE d == Drops(mem[c], s)
           u == Upsert(d, s)
<1>5. /\ d \in Databases /\ d.srvs = mem[c].srvs
      /\ \A n \in Names : d.pkgs[n] = IF mem[c].pkgs[n] = s THEN None ELSE mem[c].pkgs[n]
  <2>1. d \in Databases /\ d.srvs = mem[c].srvs
    BY <1>1, <1>4, DropsTyped
  <2>2. d.pkgs = [n \in Names |-> IF mem[c].pkgs[n] = s THEN None ELSE mem[c].pkgs[n]]
    BY <1>1 DEF Drops, Databases
  <2> QED BY <2>1, <2>2
<1>6. /\ u \in Databases /\ u.srvs = mem[c].srvs
      /\ \A n \in Names : u.pkgs[n] = IF n \in offers[s] THEN s ELSE d.pkgs[n]
  <2> HIDE DEF d
  <2>1. u \in Databases /\ u.srvs = mem[c].srvs
    BY <1>4, <1>5, UpsertTyped
  <2>2. u.pkgs = [n \in Names |-> IF n \in offers[s] THEN s ELSE d.pkgs[n]]
    BY <1>5 DEF Upsert, Databases
  <2> QED BY <2>1, <2>2
<1> HIDE DEF d, u
<1>7. /\ Knows(d, s).pkgs = d.pkgs /\ d.srvs \subseteq Knows(d, s).srvs
      /\ Knows(u, s).pkgs = u.pkgs /\ Knows(u, s).srvs = u.srvs \cup {s}
  BY <1>4, <1>5, <1>6, KnowsTyped DEF Knows, Databases
<1>8. \/ /\ mem'[c] = d \/ mem'[c] = Knows(d, s)
         /\ seen' = [seen EXCEPT ![s] = IF caller[c] = None THEN {} ELSE seen[s]]
         /\ reached' = reached
      \/ /\ mem'[c] = Knows(u, s)
         /\ seen' = [seen EXCEPT ![s] =
                       (IF caller[c] = None THEN {} ELSE seen[s]) \cup offers[s]]
         /\ reached' = reached \cup {s}
  BY <1>1, <1>3 DEF d, u, TypeOK
<1>9. todo' = [todo EXCEPT ![c] = todo[c] \ {s}]
  BY <1>1, <1>3
<1>10. \/ /\ reached' = reached
          /\ seen' = [seen EXCEPT ![s] = IF caller[c] = None THEN {} ELSE seen[s]]
          /\ mem[c].srvs \subseteq mem'[c].srvs
          /\ \A n \in Names : mem'[c].pkgs[n] =
               IF mem[c].pkgs[n] = s THEN None ELSE mem[c].pkgs[n]
       \/ /\ reached' = reached \cup {s}
          /\ seen' = [seen EXCEPT ![s] =
                        (IF caller[c] = None THEN {} ELSE seen[s]) \cup offers[s]]
          /\ mem'[c].srvs = mem[c].srvs \cup {s}
          /\ \A n \in Names : mem'[c].pkgs[n] =
               IF n \in offers[s] THEN s
               ELSE IF mem[c].pkgs[n] = s THEN None ELSE mem[c].pkgs[n]
  BY <1>5, <1>6, <1>7, <1>8
<1> QED BY <1>3, <1>4, <1>9, <1>10

(* Asking a server, in a scan of dlr: nobody else runs.                    *)
LEMMA DlrAsks ==
  ASSUME TypeOK, StepsInv, NEW c \in Clients, AsksServer(c), Asks(c), caller[c] = None,
         NEW x \in Facts, Has(c, x), Claimed(x)
  PROVE  Fine(mem[c], x)' /\ Asks(c)'
<1>1. /\ c \in Objects /\ steps[c] # <<>> /\ steps[c][1] = "servers"
      /\ UNCHANGED <<steps, caller, scanner>>
  BY ArgTyped DEF AsksServer, At, Objects
<1>2. PICK s \in todo[c] \cap Servers :
        /\ todo' = [todo EXCEPT ![c] = todo[c] \ {s}]
        /\ \/ /\ reached' = reached /\ seen' = [seen EXCEPT ![s] = {}]
              /\ mem[c].srvs \subseteq mem'[c].srvs
              /\ \A n \in Names : mem'[c].pkgs[n] =
                   IF mem[c].pkgs[n] = s THEN None ELSE mem[c].pkgs[n]
           \/ /\ reached' = reached \cup {s} /\ seen' = [seen EXCEPT ![s] = offers[s]]
              /\ mem'[c].srvs = mem[c].srvs \cup {s}
              /\ \A n \in Names : mem'[c].pkgs[n] =
                   IF n \in offers[s] THEN s
                   ELSE IF mem[c].pkgs[n] = s THEN None ELSE mem[c].pkgs[n]
  <2> DEFINE before(s) == IF caller[c] = None THEN {} ELSE seen[s]
             old(s, n) == IF mem[c].pkgs[n] = s THEN None ELSE mem[c].pkgs[n]
  <2>1. PICK s \in todo[c] \cap Servers :
          /\ todo' = [todo EXCEPT ![c] = todo[c] \ {s}]
          /\ \/ /\ reached' = reached /\ seen' = [seen EXCEPT ![s] = before(s)]
                /\ mem[c].srvs \subseteq mem'[c].srvs
                /\ \A n \in Names : mem'[c].pkgs[n] = old(s, n)
             \/ /\ reached' = reached \cup {s}
                /\ seen' = [seen EXCEPT ![s] = before(s) \cup offers[s]]
                /\ mem'[c].srvs = mem[c].srvs \cup {s}
                /\ \A n \in Names : mem'[c].pkgs[n] = IF n \in offers[s] THEN s ELSE old(s, n)
    BY AsksRows
  <2>2. before(s) = {} /\ before(s) \cup offers[s] = offers[s]
    OBVIOUS
  <2> HIDE DEF before
  <2> QED BY <2>1, <2>2
<1>3. /\ seen \in [Servers -> SUBSET Names] /\ seen' \in [Servers -> SUBSET Names]
      /\ reached \subseteq Servers /\ offers[s] \subseteq Names
      /\ todo'[c] = todo[c] \ {s}
  BY <1>1, <1>2 DEF TypeOK, Sources
<1>4. /\ reached \cap todo[c] = {}
      /\ \A r \in reached : \A n \in seen[r] : mem[c].pkgs[n] \notin todo[c]
  BY <1>1 DEF Asks
<1>5. ASSUME NEW r \in reached PROVE r # s /\ seen'[r] = seen[r]
  BY <1>2, <1>3, <1>4
<1>6. ASSUME NEW r \in reached, NEW n \in seen[r]
      PROVE  \/ mem'[c].pkgs[n] = mem[c].pkgs[n] /\ mem[c].pkgs[n] \notin todo[c]
             \/ mem'[c].pkgs[n] = s
  BY <1>2, <1>3, <1>4
<1>7. Fine(mem[c], x)
  BY <1>1 DEF Has, Unread
<1>8. s # None
  BY NamesAssumption DEF Sources
<1>9. Asks(c)'
  <2>1. reached' \cap todo'[c] = {}
    BY <1>2, <1>3, <1>4
  <2>2. ASSUME NEW r \in reached', NEW n \in seen'[r] PROVE mem'[c].pkgs[n] \notin todo'[c]
    <3>1. CASE r \in reached
      BY <1>3, <1>5, <1>6, <2>2, <3>1
    <3>2. CASE r \notin reached
      <4>1. r = s /\ n \in offers[s] /\ mem'[c].pkgs[n] = s
        BY <1>2, <1>3, <2>2, <3>2
      <4> QED BY <1>3, <4>1
    <3> QED BY <3>1, <3>2
  <2>3. \A i \in 1..Len(steps'[c]) :
          /\ steps'[c][i] # "fetch"
          /\ steps'[c][i] = "servers" => i + 1 <= Len(steps'[c]) /\ steps'[c][i + 1] = "save"
    <3>1. ASSUME NEW i \in 1..Len(steps[c]) PROVE steps[c][i] # "fetch"
      BY <1>1 DEF Asks
    <3> QED BY <1>1, <3>1 DEF Asks
  <2>4. scanner' = IF caller'[c] = None THEN "dlr" ELSE "tui"
    BY <1>1 DEF Asks
  <2> QED BY <1>1, <2>1, <2>2, <2>3, <2>4 DEF Asks
<1>10. CASE x = "rows"
  <2>1. ASSUME NEW r \in reached', NEW n \in seen'[r] PROVE mem'[c].pkgs[n] # None
    <3>1. CASE r \in reached
      BY <1>5, <1>6, <1>7, <1>8, <1>10, <2>1, <3>1 DEF Fine
    <3>2. CASE r \notin reached
      <4>1. r = s /\ n \in offers[s] /\ mem'[c].pkgs[n] = s
        BY <1>2, <1>3, <2>1, <3>2
      <4> QED BY <1>8, <4>1
    <3> QED BY <3>1, <3>2
  <2> QED BY <1>9, <1>10, <2>1 DEF Fine
<1>11. CASE x = "servers"
  BY <1>2, <1>7, <1>9, <1>11 DEF Fine
<1>12. CASE x = "ghosts"
  <2>1. ASSUME NEW n \in Names, mem'[c].pkgs[n] \in Servers
        PROVE  n \in seen'[mem'[c].pkgs[n]]
    <3>1. CASE mem'[c].pkgs[n] = s
      BY <1>2, <1>3, <1>8, <2>1, <3>1
    <3>2. CASE mem'[c].pkgs[n] # s
      <4>1. mem'[c].pkgs[n] = mem[c].pkgs[n]
        BY <1>2, <2>1, <3>2, NamesAssumption DEF Sources
      <4>2. n \in seen[mem[c].pkgs[n]]
        BY <1>7, <1>12, <2>1, <4>1 DEF Fine
      <4> QED BY <1>2, <1>3, <2>1, <3>2, <4>1, <4>2
    <3> QED BY <3>1, <3>2
  <2> QED BY <1>9, <1>12, <2>1 DEF Fine
<1> QED BY <1>9, <1>10, <1>11, <1>12 DEF Facts

(* In a scan of a TUI: only more is seen. *)
LEMMA TuiAsks ==
  ASSUME TypeOK, StepsInv, NEW c \in Clients, AsksServer(c), Asks(c), caller[c] # None
  PROVE  /\ scanner = "tui" /\ Asks(c)'
         /\ \A p \in Objects : Fine(mem[p], "ghosts") => Fine(mem[p], "ghosts")'
<1>1. /\ c \in Objects /\ steps[c] # <<>> /\ steps[c][1] = "servers"
      /\ UNCHANGED <<steps, caller, scanner>>
      /\ \A p \in Objects \ {c} : mem'[p] = mem[p]
  BY ArgTyped DEF AsksServer, At, Objects, TypeOK
<1>2. PICK s \in todo[c] \cap Servers :
        /\ todo' = [todo EXCEPT ![c] = todo[c] \ {s}]
        /\ \/ /\ seen' = [seen EXCEPT ![s] = seen[s]]
              /\ \A n \in Names : mem'[c].pkgs[n] =
                   IF mem[c].pkgs[n] = s THEN None ELSE mem[c].pkgs[n]
           \/ /\ seen' = [seen EXCEPT ![s] = seen[s] \cup offers[s]]
              /\ \A n \in Names : mem'[c].pkgs[n] =
                   IF n \in offers[s] THEN s
                   ELSE IF mem[c].pkgs[n] = s THEN None ELSE mem[c].pkgs[n]
  BY AsksRows
<1>3. seen \in [Servers -> SUBSET Names]
  BY DEF TypeOK
<1>4. \A r \in Servers : seen[r] \subseteq seen'[r]
  BY <1>2, <1>3
<1>5. ASSUME NEW p \in Objects, Fine(mem[p], "ghosts") PROVE Fine(mem[p], "ghosts")'
  <2>1. CASE p # c
    BY <1>1, <1>4, <1>5, <2>1 DEF Fine
  <2>2. CASE p = c
    <3>1. ASSUME NEW n \in Names, mem'[c].pkgs[n] \in Servers
          PROVE  n \in seen'[mem'[c].pkgs[n]]
      <4>1. CASE mem'[c].pkgs[n] = mem[c].pkgs[n]
        BY <1>4, <1>5, <2>2, <3>1, <4>1 DEF Fine
      <4>2. CASE mem'[c].pkgs[n] # mem[c].pkgs[n]
        BY <1>2, <1>3, <3>1, <4>2, NamesAssumption DEF Sources
      <4> QED BY <4>1, <4>2
    <3> QED BY <2>2, <3>1 DEF Fine
  <2> QED BY <2>1, <2>2
<1>6. Asks(c)' /\ scanner = "tui"
  BY <1>1 DEF Asks
<1> QED BY <1>5, <1>6

LEMMA FactsAsks ==
  ASSUME TypeOK, StepsInv, CallInv, OneRuns, NEW c \in Clients, AsksServer(c), Asks(c),
         NEW x \in Facts, Stored(x), \A p \in Objects : Has(p, x)
  PROVE  Stored(x)' /\ \A p \in Objects : Has(p, x)'
<1>1. /\ c \in Objects /\ steps[c] # <<>> /\ steps[c][1] = "servers"
      /\ UNCHANGED <<steps, at, caller, scanner, whole>>
  BY ArgTyped DEF AsksServer, At, Objects
<1>2. Stored(x)'
  BY <1>1 DEF Stored, Unsaved
<1>3. ASSUME NEW p \in Objects PROVE Has(p, x)'
  <2>1. CASE caller[c] = None
    <3>1. p # c => steps[p] = <<>>
      BY <1>1, <2>1, Partner, NamesAssumption
    <3>2. p = c => (Claimed(x) => Fine(mem[c], x)')
      BY <2>1, DlrAsks
    <3> QED BY <1>1, <3>1, <3>2 DEF Has, Claimed
  <2>2. CASE caller[c] # None
    BY <1>1, <2>2, TuiAsks DEF Has, Claimed, Unread, Facts
  <2> QED BY <2>1, <2>2
<1> QED BY <1>2, <1>3

LEMMA FactsKilled ==
  ASSUME NEW p \in Objects, Killed(p), NEW x \in Facts
  PROVE  Stored(x)' /\ \A o \in Objects : Has(o, x)'
BY DEF Killed, Stored, Has, Claimed, Fine, Facts

(* Who asks, after a step: an object that the step leaves alone, ...       *)
LEMMA SameAsks ==
  ASSUME NEW p \in Objects, Asks(p), steps'[p] = steps[p], todo'[p] = todo[p],
         steps[p] # <<>> /\ steps[p][1] = "servers" =>
           /\ scanner' = scanner /\ caller'[p] = caller[p] /\ mem'[p] = mem[p]
           /\ (reached' = reached /\ seen' = seen) \/ reached' = {}
  PROVE  Asks(p)'
BY DEF Asks

(* ... one that has nobody to ask, ... *)
LEMMA NoneToAsk ==
  ASSUME NEW p \in Objects, steps'[p] \in Seq(Labels),
         \A i \in 1..Len(steps'[p]) : steps'[p][i] \notin {"fetch", "servers"}
  PROVE  Asks(p)'
<1>1. steps'[p] # <<>> => 1 \in 1..Len(steps'[p])
  BY EmptySeq
<1> QED BY <1>1 DEF Asks

(* ... and one that goes on with a plan that asks no servers.              *)
LEMMA ThenAsks ==
  ASSUME TypeOK, StepsInv, NEW o \in Objects, Asks(o), steps[o] # <<>>,
         NEW q \in Seq(Labels), Then(o, q),
         \A i \in 1..Len(q) :
           q[i] # "servers" /\ (q[i] = "fetch" => i = 1 /\ todo'[o] \subseteq Repos)
  PROVE  Asks(o)'
<1> DEFINE n == Len(q)
           m == Len(steps[o])
<1>1. /\ steps[o] \in Seq(Labels) /\ m \in Nat /\ n \in Nat
      /\ steps' \in [Objects -> Seq(Labels)] /\ Len(steps'[o]) = n + m - 1
      /\ \A i \in 1..Len(steps'[o]) :
           steps'[o][i] = IF i <= n THEN q[i] ELSE steps[o][i - n + 1]
  BY ArgTyped, ThenSteps
<1>2. \A j \in 1..m : j # 1 => steps[o][j] \notin {"fetch", "servers"}
  BY DEF Asks, StepsInv
<1> HIDE DEF m
<1>3. ASSUME NEW i \in 1..Len(steps'[o])
      PROVE  /\ steps'[o][i] # "servers"
             /\ steps'[o][i] = "fetch" => i = 1 /\ todo'[o] \subseteq Repos
  <2>1. CASE i <= n
    <3>1. i \in 1..Len(q) /\ steps'[o][i] = q[i]
      BY <1>1, <2>1
    <3> QED BY <3>1
  <2>2. CASE ~(i <= n)
    <3> HIDE DEF n
    <3>1. i - n + 1 \in 1..m /\ i - n + 1 # 1
      BY <1>1, <2>2
    <3> QED BY <1>1, <1>2, <2>2, <3>1
  <2> QED BY <2>1, <2>2
<1>4. steps'[o] # <<>> => 1 \in 1..Len(steps'[o])
  BY <1>1, EmptySeq
<1> QED BY <1>3, <1>4 DEF Asks

(* Servers are asked, and then the files saved. *)
LEMMA DiscoversAsks ==
  ASSUME TypeOK, StepsInv, NEW c \in Clients, Asks(c), Discovers(c)
  PROVE  Asks(c)'
<1>1. c \in Objects /\ steps[c] # <<>>
  BY DEF Discovers, At, Objects
<1>2. PICK S \in SUBSET Servers :
        /\ Then(c, IF S = {} THEN <<"repos">> ELSE <<"servers", "save", "repos">>)
        /\ S # {} => /\ reached' = {}
                     /\ scanner' = IF caller[c] = None THEN "dlr" ELSE "tui"
  BY DEF Discovers
<1>3. caller' = caller
  BY DEF Discovers
<1>4. CASE S = {}
  <2>1. /\ Then(c, <<"repos">>) /\ <<"repos">> \in Seq(Labels)
        /\ \A i \in 1..Len(<<"repos">>) : <<"repos">>[i] \notin {"fetch", "servers"}
    BY <1>2, <1>4, Plans, Upto DEF Labels, ClientSteps
  <2> QED BY <1>1, <2>1, ThenAsks
<1>5. CASE S # {}
  <2> DEFINE q == <<"servers", "save", "repos">>
             m == Len(steps[c])
  <2>1. Then(c, q) /\ q \in Seq(Labels) /\ Len(q) = 3
        /\ q[1] = "servers" /\ q[2] = "save" /\ q[3] = "repos"
    BY <1>2, <1>5, Plans DEF Labels, ClientSteps
  <2> HIDE DEF q
  <2>2. /\ m \in Nat /\ m > 0 /\ Len(steps'[c]) = 3 + m - 1
        /\ \A i \in 1..Len(steps'[c]) :
             steps'[c][i] = IF i <= 3 THEN q[i] ELSE steps[c][i - 3 + 1]
    <3>1. steps[c] \in Seq(Labels) /\ m > 0
      BY <1>1, ArgTyped
    <3>2. m \in Nat
      BY <3>1
    <3>3. /\ Len(steps'[c]) = Len(q) + m - 1
          /\ \A i \in 1..Len(steps'[c]) :
               steps'[c][i] = IF i <= Len(q) THEN q[i] ELSE steps[c][i - Len(q) + 1]
      BY <1>1, <2>1, ThenSteps
    <3> HIDE DEF m
    <3> QED BY <2>1, <3>1, <3>2, <3>3
  <2>3. \A j \in 1..m : j # 1 => steps[c][j] \notin {"fetch", "servers"}
    BY <1>1 DEF Asks, StepsInv
  <2> HIDE DEF m
  <2>4. ASSUME NEW i \in 1..Len(steps'[c])
        PROVE  /\ steps'[c][i] # "fetch"
               /\ steps'[c][i] = "servers" =>
                    i + 1 <= Len(steps'[c]) /\ steps'[c][i + 1] = "save"
    <3>1. CASE i = 1
      <4>1. 1 \in 1..Len(steps'[c]) /\ 2 \in 1..Len(steps'[c]) /\ 1 <= 3 /\ 2 <= 3
            /\ i + 1 = 2 /\ 2 <= Len(steps'[c])
        BY <2>2, <3>1
      <4> QED BY <2>1, <2>2, <3>1, <4>1
    <3>2. CASE i \in {2, 3}
      BY <2>1, <2>2, <3>2
    <3>3. CASE i > 3
      <4>1. i - 3 + 1 \in 1..m /\ i - 3 + 1 # 1 /\ ~(i <= 3)
        BY <2>2, <3>3
      <4> QED BY <2>2, <2>3, <4>1
    <3> QED BY <2>2, <3>1, <3>2, <3>3
  <2>5. reached' = {} /\ scanner' = IF caller'[c] = None THEN "dlr" ELSE "tui"
    BY <1>2, <1>3, <1>5
  <2> QED BY <2>4, <2>5 DEF Asks
<1> QED BY <1>4, <1>5

(* Whoever is left alone while o works asks nobody.                        *)
LEMMA OthersAsk ==
  ASSUME CallInv, OneRuns, NEW o \in Objects, NEW p \in Objects, p # o, Asks(p),
         steps[o] # <<>>, steps[o][1] # "calls",
         steps'[p] = steps[p], todo'[p] = todo[p]
  PROVE  Asks(p)'
<1>1. steps[p] # <<>> => steps[p][1] # "servers"
  BY Partner, NamesAssumption
<1> QED BY <1>1, SameAsks

(* What short plans say. *)
LEMMA ShortPlans ==
  /\ <<>> \in Seq(Labels) /\ 1..Len(<<>>) = {}
  /\ \A x \in Labels : <<x>> \in Seq(Labels) /\ \A i \in 1..Len(<<x>>) : <<x>>[i] = x
  /\ \A x, y \in Labels :
       /\ <<x, y>> \in Seq(Labels)
       /\ \A i \in 1..Len(<<x, y>>) :
            (i = 1 /\ <<x, y>>[i] = x) \/ (i = 2 /\ <<x, y>>[i] = y)
<1>1. <<>> \in Seq(Labels) /\ 1..Len(<<>>) = {}
  OBVIOUS
<1>2. ASSUME NEW x \in Labels
      PROVE  <<x>> \in Seq(Labels) /\ \A i \in 1..Len(<<x>>) : <<x>>[i] = x
  BY Plans, Upto
<1>3. ASSUME NEW x \in Labels, NEW y \in Labels
      PROVE  /\ <<x, y>> \in Seq(Labels)
             /\ \A i \in 1..Len(<<x, y>>) :
                  (i = 1 /\ <<x, y>>[i] = x) \/ (i = 2 /\ <<x, y>>[i] = y)
  BY Plans, Upto
<1> QED BY <1>1, <1>2, <1>3

LEMMA AsksObject ==
  ASSUME TypeOK, StepsInv, CallInv, OneRuns, NEW o \in Objects, \A p \in Objects : Asks(p),
         ObjectStep(o)
  PROVE  \A p \in Objects : Asks(p)'
<1>1. /\ steps[o] # <<>>
      /\ steps[o][1] \in {"load", "save", "write", "servers", "fetch", "repos"}
  BY ArgTyped DEF ObjectStep, Load, SaveOpens, SaveWrites, Asked, ListsRepos,
                  FetchesIndex, At
<1>2. \A p \in Objects \ {o} : steps'[p] = steps[p] /\ todo'[p] = todo[p]
  <2>1. CASE FetchesIndex(o)
    BY <2>1 DEF FetchesIndex, TypeOK
  <2>2. CASE ~FetchesIndex(o)
    <3>1. \A p \in Objects \ {o} : steps'[p] = steps[p]
      BY <2>2 DEF ObjectStep, Load, SaveOpens, SaveWrites, Asked, ListsRepos,
                  Advance, Then, TypeOK
    <3>2. \A p \in Objects \ {o} : todo'[p] = todo[p]
      BY <2>2 DEF ObjectStep, Load, SaveOpens, SaveWrites, Asked, ListsRepos, TypeOK
    <3> QED BY <3>1, <3>2
  <2> QED BY <2>1, <2>2
<1>3. \A p \in Objects \ {o} : Asks(p)'
  BY <1>1, <1>2, OthersAsk
<1>4. ASSUME NEW q \in {<<>>, <<"load">>, <<"write">>, <<"save">>}, Then(o, q)
      PROVE  Asks(o)'
  <2>1. q \in Seq(Labels) /\ \A i \in 1..Len(q) : q[i] \notin {"servers", "fetch"}
    <3>1. CASE q = <<>>
      BY <3>1, ShortPlans
    <3>2. ASSUME NEW y \in {"load", "write", "save"}, q = <<y>>
          PROVE  q \in Seq(Labels) /\ \A i \in 1..Len(q) : q[i] \notin {"servers", "fetch"}
      BY <3>2, ShortPlans DEF Labels, ClientSteps
    <3> QED BY <1>4, <3>1, <3>2
  <2> QED BY <1>1, <1>4, <2>1, ThenAsks
<1>5. CASE Load(o) \/ SaveWrites(o)
  <2>1. PICK l \in {"load", "save"} : Advance(o, l)
    BY <1>5 DEF Load, SaveWrites
  <2>2. PICK q \in {<<>>, <<l>>} : Then(o, q)
    BY <2>1, AdvanceSteps
  <2> QED BY <1>3, <1>4, <2>2
<1>6. CASE SaveOpens(o) \/ Asked(o)
  <2>1. Then(o, <<"write">>) \/ Then(o, <<>>)
    BY <1>6 DEF SaveOpens, Asked
  <2> QED BY <1>3, <1>4, <2>1
<1>7. CASE ListsRepos(o)
  <2>1. PICK q \in {<<>>, <<"fetch", "save">>} : Then(o, q)
    BY <1>7 DEF ListsRepos
  <2>2. todo'[o] \subseteq Repos
    BY <1>7, Fields DEF ListsRepos, TypeOK
  <2>3. q \in Seq(Labels) /\ \A i \in 1..Len(q) : q[i] # "servers" /\ (q[i] = "fetch" => i = 1)
    <3>1. CASE q = <<>>
      BY <3>1, ShortPlans
    <3>2. CASE q = <<"fetch", "save">>
      <4> DEFINE x == "fetch"
                 y == "save"
      <4>1. x \in Labels /\ y \in Labels /\ q = <<x, y>>
        BY <3>2 DEF Labels, ClientSteps
      <4>2. x # "servers" /\ y # "servers" /\ y # "fetch"
        OBVIOUS
      <4> HIDE DEF x, y
      <4>3. q \in Seq(Labels) /\ \A i \in 1..Len(q) : (i = 1 /\ q[i] = x) \/ q[i] = y
        BY <4>1, ShortPlans
      <4> QED BY <4>2, <4>3
    <3> QED BY <2>1, <3>1, <3>2
  <2>4. \A i \in 1..Len(q) :
          q[i] # "servers" /\ (q[i] = "fetch" => i = 1 /\ todo'[o] \subseteq Repos)
    BY <2>2, <2>3
  <2>5. Asks(o)'
    BY <1>1, <2>1, <2>3, <2>4, ThenAsks
  <2> QED BY <1>3, <2>5
<1>8. CASE FetchesIndex(o)
  <2>1. steps'[o] = steps[o] /\ steps[o][1] = "fetch" /\ todo'[o] \subseteq todo[o]
    BY <1>8, ArgTyped DEF FetchesIndex, At, TypeOK
  <2>2. \A i \in 1..Len(steps[o]) :
          /\ steps[o][i] = "fetch" => i = 1 /\ todo'[o] \subseteq Repos
          /\ steps[o][i] = "servers" => i + 1 <= Len(steps[o]) /\ steps[o][i + 1] = "save"
    <3>1. \A i \in 1..Len(steps[o]) :
            /\ steps[o][i] = "fetch" => i = 1 /\ todo[o] \subseteq Repos
            /\ steps[o][i] = "servers" => i + 1 <= Len(steps[o]) /\ steps[o][i + 1] = "save"
      BY DEF Asks
    <3> QED BY <2>1, <3>1
  <2>3. ~(steps'[o] # <<>> /\ steps'[o][1] = "servers")
    BY <2>1
  <2>4. Asks(o)'
    BY <2>1, <2>2, <2>3 DEF Asks
  <2> QED BY <1>3, <2>4
<1> QED BY <1>3, <1>5, <1>6, <1>7, <1>8 DEF ObjectStep

LEMMA AsksClient ==
  ASSUME TypeOK, StepsInv, CallInv, OneRuns, Concurrency = 1, NEW c \in Clients, ScanInv,
         ClientStep(c)
  PROVE  \A p \in Objects : Asks(p)'
<1>1. c \in Objects /\ \A p \in Objects : Asks(p)
  BY DEF Objects, ScanInv
<1>2. CASE Command(c)
  <2>1. PICK k \in Cmds : \E a \in Arguments(k) :
          /\ steps' = [steps EXCEPT ![c] = Life(k)]
          /\ arg' = [arg EXCEPT ![c] = a]
    BY <1>2 DEF Command
  <2>2. k \in {"scan", "install", "download", "addrepo", "removerepo"}
        /\ steps'[c] = Life(k) /\ arg'[c] \in Arguments(k) /\ at'[c] = 1
        /\ \A p \in Objects \ {c} : steps'[p] = steps[p]
    BY <1>1, <1>2, <2>1, CmdsAssumption DEF Command, TypeOK, StepsInv
  <2>3. Len(steps'[c]) = 3 /\ steps'[c][1] = "load" /\ steps'[c][2] = k /\ steps'[c][3] = "end"
    BY <2>2, LifeSteps
  <2>4. steps'[c] \in Seq(Labels)
    BY <2>2, Plans DEF Life, Labels, ClientSteps
  <2>5. Asks(c)'
    BY <1>1, <2>2, <2>3, <2>4, Upto, NoneToAsk
  <2>6. \A p \in Objects \ {c} : Asks(p)'
    BY <1>1, <1>2, <2>2, SameAsks DEF Command
  <2> QED BY <2>5, <2>6
<1>3. CASE Ends(c)
  <2>1. steps[c] # <<>> /\ steps[c][1] = "end"
    BY <1>1, <1>3, ArgTyped DEF Ends, At
  <2>2. ASSUME NEW p \in Objects, p # c, p # caller[c] PROVE Asks(p)'
    <3>1. steps'[p] = steps[p] /\ todo' = todo
      BY <1>3, <2>2, PlanEnds DEF Ends
    <3> QED BY <1>1, <2>1, <2>2, <3>1, OthersAsk
  <2>3. ASSUME NEW p \in Objects, p = caller[c], p # c PROVE Asks(p)'
    <3>1. /\ Len(steps[p]) > 1 /\ Len(steps'[p]) = Len(steps[p]) - 1
          /\ \A i \in 1..Len(steps'[p]) : steps'[p][i] = steps[p][i + 1]
          /\ steps'[p] = Tail(steps[p])
      BY <1>3, <2>3, PlanEnds
    <3>2. steps[p] \in Seq(Labels) /\ Len(steps[p]) \in Nat
      BY DEF TypeOK, Labels
    <3>3. steps'[p] \in Seq(Labels)
      <4>1. steps[p] # <<>>
        BY <3>1, <3>2
      <4> QED BY <3>1, <3>2, <4>1, HeadTailProperties
    <3>4. \A j \in 1..Len(steps[p]) : j # 1 => steps[p][j] \notin {"fetch", "servers"}
      BY <1>1 DEF Asks, StepsInv
    <3>5. \A i \in 1..Len(steps'[p]) : i + 1 \in 1..Len(steps[p]) /\ i + 1 # 1
      BY <3>1, <3>2
    <3> QED BY <3>1, <3>3, <3>4, <3>5, NoneToAsk
  <2>4. Asks(c)'
    <3>1. steps'[c] = <<>>
      BY <1>3, PlanEnds
    <3> QED BY <1>1, <3>1, ShortPlans, NoneToAsk
  <2> QED BY <2>2, <2>3, <2>4
<1>4. CASE Discovers(c)
  <2>1. steps[c] # <<>> /\ steps[c][1] = "scan"
    BY <1>1, <1>4, ArgTyped DEF Discovers, At
  <2>2. ASSUME NEW p \in Objects, p # c PROVE Asks(p)'
    <3>1. steps'[p] = steps[p] /\ todo'[p] = todo[p]
      BY <1>1, <1>4, <2>2 DEF Discovers, Then, TypeOK
    <3> QED BY <1>1, <2>1, <2>2, <3>1, OthersAsk
  <2> QED BY <1>1, <1>4, <2>2, DiscoversAsks
<1>5. CASE AsksServer(c)
  <2>1. steps[c] # <<>> /\ steps[c][1] = "servers"
    BY <1>1, <1>5, ArgTyped DEF AsksServer, At
  <2>2. ASSUME NEW p \in Objects, p # c PROVE Asks(p)'
    <3>1. steps'[p] = steps[p] /\ todo'[p] = todo[p]
      BY <1>1, <1>5, <2>2 DEF AsksServer, TypeOK
    <3> QED BY <1>1, <2>1, <2>2, <3>1, OthersAsk
  <2>3. CASE caller[c] = None
    <3>1. Claimed("rows") /\ Has(c, "rows") /\ "rows" \in Facts
      BY <1>1, <2>1, <2>3 DEF Asks, Claimed, ScanInv, Facts
    <3> QED BY <1>1, <1>5, <2>2, <2>3, <3>1, DlrAsks
  <2>4. CASE caller[c] # None
    BY <1>1, <1>5, <2>2, <2>4, TuiAsks
  <2> QED BY <2>3, <2>4
<1>6. CASE AddsRepo(c) \/ RemovesRepo(c) \/ Looks(c) \/ Gets(c)
  <2>1. /\ steps[c] # <<>>
        /\ steps[c][1] \notin {"calls", "servers"}
        /\ \A p \in Objects \ {c} : steps'[p] = steps[p] /\ todo'[p] = todo[p]
    BY <1>1, <1>6, WorksMem DEF Works
  <2>2. PICK q \in {<<>>, <<"save">>, <<"get_install">>, <<"get_download">>,
                    <<"save", "get_install">>, <<"save", "get_download">>} : Then(c, q)
    BY <1>6 DEF AddsRepo, RemovesRepo, Looks, FindsServer, Gets, Get
  <2>3. q \in Seq(Labels) /\ \A i \in 1..Len(q) : q[i] \notin {"servers", "fetch"}
    <3>1. /\ Len(<<>>) = 0 /\ <<>> \in Seq(Labels)
          /\ \A y \in {"save", "get_install", "get_download"} :
               <<y>> \in Seq(Labels) /\ Len(<<y>>) = 1 /\ <<y>>[1] = y
          /\ \A y \in {"get_install", "get_download"} :
               /\ <<"save", y>> \in Seq(Labels) /\ Len(<<"save", y>>) = 2
               /\ <<"save", y>>[1] = "save" /\ <<"save", y>>[2] = y
      BY Plans DEF Labels, ClientSteps
    <3>2. CASE q = <<>>
      BY <3>2, ShortPlans
    <3>3. ASSUME NEW y \in {"save", "get_install", "get_download"}, q = <<y>>
          PROVE  q \in Seq(Labels) /\ \A i \in 1..Len(q) : q[i] \notin {"servers", "fetch"}
      BY <3>1, <3>3, Upto
    <3>4. ASSUME NEW y \in {"get_install", "get_download"}, q = <<"save", y>>
          PROVE  q \in Seq(Labels) /\ \A i \in 1..Len(q) : q[i] \notin {"servers", "fetch"}
      BY <3>1, <3>4, Upto
    <3> QED BY <2>2, <3>2, <3>3, <3>4
  <2>4. Asks(c)'
    BY <1>1, <2>1, <2>2, <2>3, ThenAsks
  <2> QED BY <1>1, <2>1, <2>4, OthersAsk
<1> QED BY <1>2, <1>3, <1>4, <1>5, <1>6 DEF ClientStep

LEMMA AsksTui ==
  ASSUME TypeOK, StepsInv, CallInv, OneRuns, Concurrency = 1, NEW t \in Tuis,
         \A p \in Objects : Asks(p), TuiStep(t)
  PROVE  \A p \in Objects : Asks(p)'
<1>1. t \in Objects /\ UNCHANGED <<todo, at, seen, reached, scanner>>
  BY DEF Objects, TuiStep, Opens, Calls, Edits, Quits
<1>2. CASE Calls(t)
  <2>1. PICK k \in {"scan", "install", "download"}, c \in Clients :
          \E a \in Arguments(k) :
            /\ steps[c] = <<>>
            /\ steps' = [steps EXCEPT ![c] = Life(k), ![t] = After(k)]
            /\ arg' = [arg EXCEPT ![c] = a]
    BY <1>2 DEF Calls
  <2>2. c \in Objects /\ c # t
    BY NamesAssumption DEF Objects
  <2>3. /\ steps'[c] = Life(k) /\ steps'[t] = After(k) /\ arg'[c] \in Arguments(k)
        /\ at'[c] = 1 /\ \A p \in Objects \ {c, t} : steps'[p] = steps[p]
    BY <1>1, <2>1, <2>2 DEF TypeOK, StepsInv
  <2>4. Len(steps'[c]) = 3 /\ steps'[c][1] = "load" /\ steps'[c][2] = k /\ steps'[c][3] = "end"
    BY <2>3, LifeSteps
  <2>5. steps'[c] \in Seq(Labels)
    BY <2>3, Plans DEF Life, Labels, ClientSteps
  <2>6. Asks(c)'
    BY <2>2, <2>4, <2>5, Upto, NoneToAsk
  <2>7. Asks(t)'
    BY <1>1, <2>3, AfterSteps, NoneToAsk
  <2>8. steps[t] # <<>> /\ steps[t][1] = "menu"
    BY <1>2, Plans DEF Calls, Labels, TuiSteps
  <2>9. \A p \in Objects \ {c, t} : Asks(p)'
    BY <1>1, <2>3, <2>8, OthersAsk
  <2> QED BY <2>6, <2>7, <2>9
<1>3. CASE ~Calls(t)
  <2>1. PICK q \in {<<>>, <<"save", "menu">>, <<"save", "load", "menu">>,
                    <<"load", "load", "menu">>} : steps' = [steps EXCEPT ![t] = q]
    BY <1>3 DEF TuiStep, Opens, Edits, Quits
  <2>2. steps'[t] = q /\ \A p \in Objects \ {t} : steps'[p] = steps[p]
    BY <1>1, <2>1 DEF TypeOK
  <2>3. q \in Seq(Labels) /\ \A i \in 1..Len(q) : q[i] \notin {"fetch", "servers"}
    <3>1. /\ Len(<<>>) = 0 /\ <<>> \in Seq(Labels)
          /\ <<"save", "menu">> \in Seq(Labels) /\ Len(<<"save", "menu">>) = 2
          /\ <<"save", "menu">>[1] = "save" /\ <<"save", "menu">>[2] = "menu"
          /\ \A y \in {"save", "load"} :
               /\ <<y, "load", "menu">> \in Seq(Labels) /\ Len(<<y, "load", "menu">>) = 3
               /\ <<y, "load", "menu">>[1] = y /\ <<y, "load", "menu">>[2] = "load"
               /\ <<y, "load", "menu">>[3] = "menu"
      BY Plans DEF Labels, TuiSteps
    <3>2. CASE q = <<>>
      BY <3>2, ShortPlans
    <3>3. CASE q = <<"save", "menu">>
      BY <3>1, <3>3, Upto
    <3>4. ASSUME NEW y \in {"save", "load"}, q = <<y, "load", "menu">>
          PROVE  q \in Seq(Labels) /\ \A i \in 1..Len(q) : q[i] \notin {"fetch", "servers"}
      BY <3>1, <3>4, Upto
    <3> QED BY <2>1, <3>2, <3>3, <3>4
  <2>4. Asks(t)'
    BY <1>1, <2>2, <2>3, NoneToAsk
  <2>5. ASSUME NEW p \in Objects, p # t PROVE Asks(p)'
    <3>1. caller' = caller /\ mem'[p] = mem[p]
      BY <1>1, <1>3, <2>5 DEF TuiStep, Opens, Edits, Quits, TypeOK
    <3> QED BY <1>1, <2>2, <2>5, <3>1, SameAsks
  <2> QED BY <2>4, <2>5
<1> QED BY <1>2, <1>3

LEMMA AsksKilled ==
  ASSUME TypeOK, NEW d \in Objects, Killed(d), \A p \in Objects : Asks(p)
  PROVE  \A p \in Objects : Asks(p)'
<1>1. ASSUME NEW p \in Objects PROVE Asks(p)'
  <2>1. CASE steps'[p] = <<>>
    BY <2>1, ShortPlans, NoneToAsk
  <2>2. CASE steps'[p] # <<>>
    <3>1. /\ steps'[p] = steps[p] /\ todo'[p] = todo[p] /\ mem'[p] = mem[p]
          /\ caller'[p] = caller[p] /\ scanner' = scanner /\ reached' = {}
      BY <2>2 DEF Killed
    <3> QED BY <3>1, SameAsks
  <2> QED BY <2>1, <2>2
<1> QED BY <1>1

(* Every step keeps what is known of the last scan. *)
LEMMA ScanStep ==
  ASSUME TypeOK, StepsInv, CallInv, OneRuns, Concurrency = 1, ScanInv, [Next]_vars
  PROVE  ScanInv'
<1>1. /\ \A o \in Objects : Asks(o)
      /\ \A x \in Facts : Stored(x) /\ \A o \in Objects : Has(o, x)
  BY DEF ScanInv
<1>2. CASE UNCHANGED vars \/ Publishes
  <2>1. UNCHANGED <<file, mem, steps, at, todo, caller, whole, seen, reached, scanner>>
    BY <1>2 DEF vars, Publishes
  <2> QED BY <1>1, <2>1 DEF ScanInv, Asks, Stored, Has, Claimed, Fine, Unread, Unsaved
<1>3. ASSUME NEW p \in Objects, Killed(p) PROVE ScanInv'
  BY <1>1, <1>3, AsksKilled, FactsKilled DEF ScanInv
<1>4. ASSUME NEW o \in Objects, ObjectStep(o) PROVE ScanInv'
  <2>1. \A p \in Objects : Asks(p)'
    BY <1>1, <1>4, AsksObject
  <2>2. ASSUME NEW x \in Facts PROVE Stored(x)' /\ \A p \in Objects : Has(p, x)'
    <3>1. CASE Asked(o) /\ steps[o][1] = "servers"
      BY <1>1, <3>1, FactsAsked
    <3>2. Asked(o) => steps[o][1] \in {"servers", "fetch"}
      BY ArgTyped DEF Asked, At
    <3>3. CASE Works(o)
      BY <1>1, <3>3, FactsWork
    <3>4. CASE Load(o)
      BY <1>1, <3>4, FactsLoad
    <3>5. CASE SaveOpens(o) \/ SaveWrites(o)
      BY <1>1, <3>5, FactsSave
    <3> QED BY <1>4, <3>1, <3>2, <3>3, <3>4, <3>5 DEF ObjectStep, Works
  <2> QED BY <2>1, <2>2 DEF ScanInv
<1>5. ASSUME NEW c \in Clients, ClientStep(c) PROVE ScanInv'
  <2>1. \A p \in Objects : Asks(p)'
    BY <1>5, AsksClient
  <2>2. ASSUME NEW x \in Facts PROVE Stored(x)' /\ \A p \in Objects : Has(p, x)'
    <3>1. c \in Objects /\ Asks(c)
      BY <1>1 DEF Objects
    <3>2. CASE Command(c) \/ Ends(c)
      BY <1>1, <3>1, <3>2, FactsTurn
    <3>3. CASE Discovers(c)
      BY <1>1, <3>3, FactsDiscover
    <3>4. CASE AsksServer(c)
      BY <1>1, <3>1, <3>4, FactsAsks
    <3>5. CASE Works(c)
      BY <1>1, <3>1, <3>5, FactsWork
    <3> QED BY <1>5, <3>2, <3>3, <3>4, <3>5 DEF ClientStep, Works
  <2> QED BY <2>1, <2>2 DEF ScanInv
<1>6. ASSUME NEW t \in Tuis, TuiStep(t) PROVE ScanInv'
  <2>1. \A p \in Objects : Asks(p)'
    BY <1>1, <1>6, AsksTui
  <2>2. ASSUME NEW x \in Facts PROVE Stored(x)' /\ \A p \in Objects : Has(p, x)'
    <3>1. t \in Objects /\ Asks(t)
      BY <1>1 DEF Objects
    <3>2. CASE Opens(t) \/ Calls(t) \/ Quits(t)
      BY <1>1, <3>1, <3>2, FactsTurn
    <3>3. CASE Edits(t)
      BY <1>1, <3>1, <3>3, FactsWork DEF Works
    <3> QED BY <1>6, <3>2, <3>3 DEF TuiStep
  <2> QED BY <2>1, <2>2 DEF ScanInv
<1> QED BY <1>2, <1>3, <1>4, <1>5, <1>6 DEF Next

-----------------------------------------------------------------------------

LEMMA InitInv == Init => Inv
<1> SUFFICES ASSUME Init PROVE Inv
  OBVIOUS
<1>1. TypeOK
  <2>1. /\ mem \in [Objects -> Databases] /\ file \in Databases
        /\ steps \in [Objects -> Seq(Labels)] /\ at \in [Objects -> 1..4]
    BY EmptyTyped, Plans DEF Init
  <2> QED BY <2>1, CmdsAssumption, FileNames DEF Init, TypeOK, Labels
<1>2. StepsInv /\ CallInv /\ OneRuns
  BY Plans DEF Init, StepsInv, CallInv, OneRuns
<1>3. MemInv
  BY DEF Init, MemInv
<1>4. FileInv
  <2>1. file[Files[3]] = {} /\ file[Files[4]] = {} /\ did = {}
    BY FileNames DEF Init, Empty
  <2> QED BY <2>1 DEF FileInv, Deeds
<1> QED BY <1>1, <1>2, <1>3, <1>4 DEF Inv

(* The types, for any number of processes at a time. *)
THEOREM TypeCorrect == Spec => []TypeOK
<1>1. Init => TypeOK /\ StepsInv /\ CallInv
  BY InitInv DEF Inv
<1>2. TypeOK /\ StepsInv /\ CallInv /\ [Next]_vars => (TypeOK /\ StepsInv /\ CallInv)'
  BY TypeStep, PlanStep
<1> QED BY <1>1, <1>2, PTL DEF Spec

(* The inductive invariant: a process alone has in memory, or will read,   *)
(* what was done, and saves it.                                            *)
THEOREM Invariant == ASSUME Concurrency = 1 PROVE Spec => []Inv
<1>1. Init => Inv
  BY InitInv
<1>2. Inv /\ [Next]_vars => Inv'
  BY TypeStep, PlanStep, OneRunsStep, DeedsStep DEF Inv
<1> QED BY <1>1, <1>2, PTL DEF Spec

(* DeedsAreStored, for any number of commands of any number of objects:    *)
(* what was installed or added and not taken out again is what the files   *)
(* say.                                                                    *)
THEOREM DeedsStored == ASSUME Concurrency = 1 PROVE Spec => []DeedsAreStored
<1>1. Inv => DeedsAreStored
  <2> SUFFICES ASSUME Inv, Settled PROVE file.inst \cup file.repos = did
    BY DEF DeedsAreStored
  <2>1. ASSUME NEW f \in {3, 4} PROVE file[Files[f]] = Deeds(f)
    <3>1. ASSUME NEW o \in Objects PROVE ~Owes(o, f)
      BY DEF Settled, Quiescent, Idle, Owes
    <3> QED BY <3>1 DEF Inv, FileInv, Settled
  <2>2. file.repos = did \cap Repos /\ file.inst = did \cap Names
    BY <2>1, FileNames DEF Deeds
  <2> QED BY <2>2 DEF Inv, TypeOK
<1> QED BY <1>1, Invariant, PTL

(* The inductive invariant of the scans, beside that of the deeds.         *)
LEMMA InitScan == Init => ScanInv
<1> SUFFICES ASSUME Init PROVE ScanInv
  OBVIOUS
<1>1. \A o \in Objects : steps[o] = <<>> /\ 1..Len(steps[o]) = {}
  BY ShortPlans DEF Init
<1>2. \A o \in Objects : Asks(o)
  BY <1>1 DEF Asks
<1>3. ASSUME NEW x \in Facts PROVE Stored(x) /\ \A o \in Objects : Has(o, x)
  <2>1. Fine(file, x)
    <3>1. CASE x = "ghosts"
      BY <3>1, EmptyFine DEF Init
    <3>2. CASE x # "ghosts"
      BY <3>2 DEF Init, Fine
    <3> QED BY <3>1, <3>2
  <2> QED BY <1>1, <2>1 DEF Stored, Has
<1> QED BY <1>2, <1>3 DEF ScanInv

THEOREM ScanInvariant == ASSUME Concurrency = 1 PROVE Spec => []ScanInv
<1>1. Init => Inv /\ ScanInv
  BY InitInv, InitScan
<1>2. Inv /\ ScanInv /\ [Next]_vars => (Inv /\ ScanInv)'
  BY TypeStep, PlanStep, OneRunsStep, DeedsStep, ScanStep DEF Inv
<1> QED BY <1>1, <1>2, PTL DEF Spec

(* Nothing under way, nothing left to save. *)
LEMMA QuietStored ==
  ASSUME Quiescent, NEW x \in Facts, Stored(x), Claimed(x)
  PROVE  Fine(file, x)
<1>1. ASSUME NEW o \in Objects PROVE ~Unsaved(o, x)
  <2>1. CASE steps[o] = <<>>
    BY <2>1 DEF Unsaved
  <2>2. CASE steps[o] = <<"menu">>
    <3>1. steps[o][1] = "menu"
      BY <2>2, Plans DEF Labels, TuiSteps
    <3> QED BY <3>1 DEF Unsaved
  <2> QED BY <2>1, <2>2 DEF Quiescent, Idle
<1> QED BY <1>1 DEF Stored

(* ScanIsStored: what servers answered a scan of dlr, and every package    *)
(* they offered then, is in the files whenever nothing is under way,       *)
(* though processes may have been killed before and TUIs saved since.      *)
THEOREM ScansStored == ASSUME Concurrency = 1 PROVE Spec => []ScanIsStored
<1>1. ScanInv => ScanIsStored
  <2> SUFFICES ASSUME ScanInv, Quiescent, scanner = "dlr", NEW s \in reached
               PROVE  Listed(s)
    BY DEF ScanIsStored
  <2>1. Fine(file, "rows") /\ Fine(file, "servers")
    BY QuietStored DEF ScanInv, Facts, Claimed
  <2> QED BY <2>1 DEF Fine, Listed
<1> QED BY <1>1, ScanInvariant, PTL

(* NoGhostRows: no row of a server for a package it did not offer in the   *)
(* last scan of dlr that asked it, or in one of a TUI since.               *)
THEOREM NoGhosts == ASSUME Concurrency = 1 PROVE Spec => []NoGhostRows
<1>1. ScanInv => NoGhostRows
  <2> SUFFICES ASSUME ScanInv, Settled PROVE NoGhostRows
    BY DEF NoGhostRows
  <2>1. Fine(file, "ghosts")
    BY QuietStored DEF ScanInv, Facts, Claimed, Settled
  <2> QED BY <2>1 DEF Fine, NoGhostRows
<1> QED BY <1>1, ScanInvariant, PTL

=============================================================================
