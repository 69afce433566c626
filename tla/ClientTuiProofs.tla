-------------------------- MODULE ClientTuiProofs --------------------------
(***************************************************************************)
(* The TUI, whatever keys are pressed, changes the files and the databases *)
(* only as ClientDB allows, for any number of packages, repositories,      *)
(* TUIs and commands: when it removes or untracks the highlighted row, the *)
(* lists it shows are those of its database.                               *)
(* And the row is there: wherever the cursor was moved, whatever was typed *)
(* into the search and whatever was loaded since, a key that takes the     *)
(* highlighted row finds one.                                              *)
(***************************************************************************)
EXTENDS ClientTui, ClientDBProofs, FiniteSetTheorems

Lists == [packages : SUBSET Names, servers : SUBSET Servers,
          repos : SUBSET Repos, installed : SUBSET Names, log : {{}}]

(* A TUI that has more to do than to come back to its menu reads the files *)
(* last, or has to save or to wait only.                                   *)
Ready(t) ==
  /\ Len(steps[t]) > 2 => steps[t][Len(steps[t]) - 1] = "load"
  /\ Len(steps[t]) = 2 => steps[t][1] \in {"load", "save", "write", "calls"}

(* Nothing is read any more before the next key. *)
Read(t) ==
  \/ Len(steps[t]) = 1
  \/ Len(steps[t]) = 2 /\ steps[t][1] # "load"

UpToDate(t) == Ready(t) /\ (Read(t) => lists[t] = ListsOf(mem[t]))

ListsInv == lists \in [Tuis -> Lists] /\ \A t \in Tuis : UpToDate(t)

(* Nothing is newly read, and a TUI that waits for a key still waits.      *)
Rests == \A u \in Tuis :
  (Read(u)' => Read(u)) /\ (steps[u] = <<"menu">> => steps'[u] = <<"menu">>)

LEMMA ListsTyped ==
  ASSUME NEW m \in Databases PROVE ListsOf(m) \in Lists
BY Fields DEF ListsOf, Lists

LEMMA SameUpToDate ==
  ASSUME NEW t \in Tuis, UpToDate(t), steps'[t] = steps[t],
         Read(t) => mem'[t] = mem[t], lists'[t] = lists[t]
  PROVE  UpToDate(t)'
BY DEF UpToDate, Ready, Read

(* A TUI goes on. *)
LEMMA ReadyThen ==
  ASSUME TypeOK, StepsInv, NEW t \in Tuis, Ready(t), steps[t] # <<>>,
         steps[t][1] \notin {"menu", "calls"}, NEW q \in Seq(Labels), Then(t, q),
         \/ q = <<>>
         \/ Len(q) = 1 /\ q[1] \in {"load", "save", "write"}
         \/ Len(q) = 2 /\ Len(steps[t]) > 2
  PROVE  /\ Ready(t)'
         /\ q = <<>> => /\ Len(steps'[t]) = Len(steps[t]) - 1
                        /\ Len(steps[t]) > 2 => ~Read(t)'
         /\ q # <<>> => steps'[t][1] = q[1] /\ Len(steps'[t]) = Len(q) + Len(steps[t]) - 1
<1> DEFINE n == Len(q)
           m == Len(steps[t])
<1>1. t \in Objects
  BY DEF Objects
<1>2. m \in Nat /\ n \in Nat /\ m # 0 /\ m # 1
  <2>1. m \in Nat /\ m # 0 /\ n \in Nat
    BY <1>1, ArgTyped
  <2>2. m # 1
    <3>1. steps[t][1] \notin {"end", "menu"}
      BY <1>1, ArgTyped, NamesAssumption DEF StepsInv, TuiSteps
    <3> QED BY <1>1, <3>1, ArgTyped
  <2> QED BY <2>1, <2>2
<1>3. /\ Len(steps'[t]) = n + m - 1
      /\ \A i \in 1..(n + m - 1) :
           steps'[t][i] = IF i <= n THEN q[i] ELSE steps[t][i - n + 1]
  BY <1>1, ThenSteps
<1>4. q = <<>> <=> n = 0
  BY EmptySeq
<1>5. /\ m > 2 => steps[t][m - 1] = "load"
      /\ m = 2 => steps[t][1] \in {"load", "save", "write", "calls"}
  BY DEF Ready
<1>6. q # <<>> => steps'[t][1] = q[1]
  BY <1>1, ThenFirst
<1>7. /\ n = 1 => q[1] \in {"load", "save", "write"}
      /\ n = 0 \/ n = 1 \/ (n = 2 /\ m > 2)
  <2>1. \/ n = 0
        \/ n = 1 /\ q[1] \in {"load", "save", "write"}
        \/ n = 2 /\ m > 2
    BY <1>4
  <2> HIDE DEF n, m
  <2> QED BY <1>2, <2>1
<1> HIDE DEF n, m
<1>8. m = 2 \/ m > 2
  BY <1>2
<1>9. CASE n = 0
  <2>1. /\ n + m - 1 = m - 1 /\ m - 1 # 0
        /\ \A i \in 1..(m - 1) : i - n + 1 = i + 1 /\ ~(i <= n)
    BY <1>2, <1>9
  <2>2. \A i \in 1..(m - 1) : steps'[t][i] = steps[t][i + 1]
    BY <1>3, <2>1
  <2>3. ASSUME m - 1 > 2 PROVE steps'[t][m - 1 - 1] = "load"
    <3>1. m - 1 - 1 \in 1..(m - 1) /\ (m - 1 - 1) + 1 = m - 1 /\ m > 2
      BY <1>2, <2>3
    <3> QED BY <1>5, <2>2, <3>1
  <2>4. ASSUME m - 1 = 2 PROVE steps'[t][1] = "load"
    <3>1. 1 \in 1..(m - 1) /\ 1 + 1 = m - 1 /\ m > 2
      BY <1>2, <2>4
    <3> QED BY <1>5, <2>2, <3>1
  <2>5. Len(steps'[t]) = m - 1
    BY <1>3, <2>1
  <2>6. Ready(t)'
    BY <2>3, <2>4, <2>5 DEF Ready
  <2>7. m > 2 => ~Read(t)'
    <3>1. m > 2 => m - 1 # 1
      BY <1>2
    <3> QED BY <2>4, <2>5, <3>1 DEF Read
  <2> QED BY <1>4, <1>9, <2>5, <2>6, <2>7 DEF m
<1>10. CASE n = 1
  <2>1. n + m - 1 = m
    BY <1>2, <1>10
  <2>2. ASSUME m > 2 PROVE steps'[t][m - 1] = "load"
    <3>1. m - 1 \in 1..m /\ ~(m - 1 <= n) /\ m - 1 - n + 1 = m - 1
      BY <1>2, <1>10, <2>2
    <3> QED BY <1>3, <1>5, <2>1, <2>2, <3>1
  <2>3. Len(steps'[t]) = m /\ steps'[t][1] \in {"load", "save", "write"}
    BY <1>3, <1>4, <1>6, <1>7, <1>10, <2>1
  <2>4. Ready(t)'
    BY <2>2, <2>3 DEF Ready
  <2> QED BY <1>3, <1>4, <1>6, <1>10, <2>4 DEF m, n
<1>11. CASE n = 2 /\ m > 2
  <2>1. n + m - 1 = m + 1 /\ m + 1 > 2 /\ m + 1 # 2
    BY <1>2, <1>11
  <2>2. m \in 1..(m + 1) /\ ~(m <= n) /\ m - n + 1 = m - 1 /\ m + 1 - 1 = m
    BY <1>2, <1>11
  <2>3. steps'[t][m + 1 - 1] = "load"
    BY <1>3, <1>5, <1>11, <2>1, <2>2
  <2>4. Len(steps'[t]) = m + 1
    BY <1>3, <2>1
  <2>5. Ready(t)'
    <3>1. steps'[t][Len(steps'[t]) - 1] = "load" /\ Len(steps'[t]) # 2
      BY <1>2, <2>1, <2>3, <2>4
    <3> QED BY <3>1 DEF Ready
  <2> QED BY <1>3, <1>4, <1>6, <1>11, <2>5 DEF m, n
<1> QED BY <1>7, <1>9, <1>10, <1>11

-----------------------------------------------------------------------------
(* The rest of the TUI: what the screen shows stays true.                  *)

LEMMA LastIsMenu ==
  ASSUME TypeOK, StepsInv, NEW t \in Tuis, steps[t] # <<>>
  PROVE  /\ Len(steps[t]) \in Nat /\ Len(steps[t]) # 0
         /\ Len(steps[t]) = 1 <=> steps[t][1] = "menu"
         /\ Len(steps[t]) = 1 => steps[t] = <<"menu">>
<1>1. t \in Objects
  BY DEF Objects
<1>2. /\ steps[t] \in Seq(Labels) /\ Len(steps[t]) > 0 /\ 1 \in 1..Len(steps[t])
      /\ steps[t][1] \in {"end", "menu"} <=> Len(steps[t]) = 1
  BY <1>1, ArgTyped
<1>3. steps[t][1] \in TuiSteps
  BY <1>1, <1>2 DEF StepsInv
<1>4. steps[t][1] # "end"
  BY <1>3 DEF TuiSteps
<1>5. Len(steps[t]) = 1 => steps[t] = <<"menu">>
  BY <1>2, <1>4
<1> QED BY <1>2, <1>4, <1>5

LEMMA AtMenu ==
  ASSUME NEW t \in Tuis, steps[t] = <<"menu">>, ListsInv
  PROVE  lists[t] = ListsOf(mem[t])
<1>1. Len(steps[t]) = 1
  BY Plans DEF Labels, TuiSteps
<1> QED BY <1>1 DEF ListsInv, UpToDate, Read

(* Only t's screen changes. *)
LEMMA OneScreen ==
  ASSUME ListsInv, NEW t \in Tuis, lists' \in [Tuis -> Lists], UpToDate(t)',
         \A u \in Tuis \ {t} :
           steps'[u] = steps[u] /\ mem'[u] = mem[u] /\ lists'[u] = lists[u]
  PROVE  ListsInv'
<1>1. \A u \in Tuis \ {t} : UpToDate(u)'
  BY SameUpToDate DEF ListsInv
<1> QED BY <1>1 DEF ListsInv

LEMMA NoScreen ==
  ASSUME ListsInv, lists' = lists,
         \A u \in Tuis : steps'[u] = steps[u] /\ mem'[u] = mem[u]
  PROVE  ListsInv' /\ Rests
<1>1. \A u \in Tuis : UpToDate(u)'
  BY SameUpToDate DEF ListsInv
<1>2. Rests
  BY DEF Rests, Read
<1> QED BY <1>1, <1>2 DEF ListsInv

(* Only t goes on, and it was not waiting for a key. *)
LEMMA OneRests ==
  ASSUME NEW t \in Tuis, Read(t)' => Read(t), steps[t] # <<"menu">>,
         \A u \in Tuis \ {t} : steps'[u] = steps[u]
  PROVE  Rests
BY DEF Rests, Read

LEMMA ListsCalls ==
  ASSUME TypeOK, StepsInv, CallInv, ListsInv, NEW t \in Tuis, Calls(t), lists' = lists
  PROVE  ListsInv'
<1>1. PICK c \in Clients, k \in {"scan", "install", "download"} :
        /\ steps'[t] = After(k)
        /\ \A p \in Objects \ {c, t} : steps'[p] = steps[p]
  BY PlanCalls
<1>2. mem' = mem /\ lists[t] = ListsOf(mem[t])
  BY AtMenu DEF Calls
<1>3. /\ Len(steps'[t]) = 2 \/ (Len(steps'[t]) > 2
                                /\ steps'[t][Len(steps'[t]) - 1] = "load")
      /\ steps'[t][1] = "calls"
  BY <1>1, AfterSteps
<1>4. Ready(t)'
  <2>1. Len(steps'[t]) \in Nat
    BY <1>1, AfterSteps
  <2>2. Len(steps'[t]) = 2 => ~(Len(steps'[t]) > 2)
    BY <2>1
  <2> QED BY <1>3, <2>2 DEF Ready
<1>5. UpToDate(t)'
  BY <1>2, <1>4 DEF UpToDate
<1>6. \A u \in Tuis \ {t} : steps'[u] = steps[u]
  BY <1>1, NamesAssumption DEF Objects
<1> QED BY <1>2, <1>5, <1>6, OneScreen DEF ListsInv

LEMMA ReposSet ==
  ASSUME NEW a, NEW b, NEW c, NEW d, NEW x
  PROVE  [[packages |-> a, servers |-> b, repos |-> c, installed |-> d, log |-> {}]
            EXCEPT !.repos = x]
         = [packages |-> a, servers |-> b, repos |-> x, installed |-> d, log |-> {}]
OBVIOUS

(* The key that removes a repository, adds one or untracks a package. *)
LEMMA ListsEdits ==
  ASSUME TypeOK, StepsInv, CallInv, ListsInv, NEW t \in Tuis, Edits(t),
         \/ /\ lists' = [lists EXCEPT ![t].repos = mem'[t].repos]
            /\ \E x : mem'[t] = [mem[t] EXCEPT !.repos = x]
         \/ lists' = lists /\ steps'[t] = <<"save", "load", "menu">>
  PROVE  ListsInv'
<1>1. t \in Objects /\ mem[t] \in Databases /\ lists[t] = ListsOf(mem[t])
  BY AtMenu DEF Objects, TypeOK, Edits
<1>2. \A u \in Tuis \ {t} : steps'[u] = steps[u] /\ mem'[u] = mem[u]
  BY PlanTui DEF Objects
<1>3. steps'[t] = <<"save", "menu">> \/ steps'[t] = <<"save", "load", "menu">>
  BY <1>1 DEF Edits, TypeOK
<1>4. mem'[t] \in Databases
  BY <1>1, TypeTui DEF TypeOK, TuiStep
<1>5. {"save", "load", "menu"} \subseteq Labels
  BY DEF Labels, TuiSteps
<1>6. CASE lists' = lists /\ steps'[t] = <<"save", "load", "menu">>
  <2>1. Len(steps'[t]) = 3 /\ steps'[t][2] = "load"
    BY <1>5, <1>6, Plans
  <2>2. Len(steps'[t]) - 1 = 2 /\ Len(steps'[t]) # 2 /\ Len(steps'[t]) # 1
    BY <2>1
  <2>3. UpToDate(t)'
    BY <2>1, <2>2 DEF UpToDate, Ready, Read
  <2> QED BY <1>2, <1>6, <2>3, OneScreen DEF ListsInv
<1>7. CASE /\ lists' = [lists EXCEPT ![t].repos = mem'[t].repos]
           /\ \E x : mem'[t] = [mem[t] EXCEPT !.repos = x]
  <2>1. lists'[t] = ListsOf(mem'[t])
    <3>1. lists'[t] = [lists[t] EXCEPT !.repos = mem'[t].repos]
      BY <1>7 DEF ListsInv
    <3>2. /\ mem'[t].pkgs = mem[t].pkgs /\ mem'[t].srvs = mem[t].srvs
          /\ mem'[t].inst = mem[t].inst
      BY <1>1, <1>7 DEF Databases
    <3> DEFINE P == {n \in Names : mem[t].pkgs[n] # None}
    <3>3. lists[t] = [packages |-> P, servers |-> mem[t].srvs, repos |-> mem[t].repos,
                      installed |-> mem[t].inst, log |-> {}]
      BY <1>1 DEF ListsOf
    <3>4. ListsOf(mem'[t]) = [packages |-> P, servers |-> mem[t].srvs,
                              repos |-> mem'[t].repos,
                              installed |-> mem[t].inst, log |-> {}]
      BY <3>2 DEF ListsOf
    <3> DEFINE R == [packages |-> P, servers |-> mem[t].srvs, repos |-> mem'[t].repos,
                     installed |-> mem[t].inst, log |-> {}]
    <3>5. lists'[t] = R
      BY <3>1, <3>3, ReposSet
    <3> HIDE DEF R
    <3> QED BY <3>4, <3>5 DEF R
  <2>2. lists' \in [Tuis -> Lists] /\ \A u \in Tuis \ {t} : lists'[u] = lists[u]
    <3>1. PICK d \in Lists : lists' = [lists EXCEPT ![t] = d]
      <4>1. lists' = [lists EXCEPT ![t] = lists'[t]]
        BY <1>7 DEF ListsInv
      <4> QED BY <1>4, <2>1, <4>1, ListsTyped
    <3> QED BY <3>1 DEF ListsInv
  <2>3. Ready(t)'
    <3>1. \/ Len(steps'[t]) = 2 /\ steps'[t][1] = "save"
          \/ Len(steps'[t]) = 3 /\ steps'[t][2] = "load"
      <4>1. CASE steps'[t] = <<"save", "menu">>
        BY <1>5, <4>1, Plans
      <4>2. CASE steps'[t] = <<"save", "load", "menu">>
        BY <1>5, <4>2, Plans
      <4> QED BY <1>3, <4>1, <4>2
    <3>2. CASE Len(steps'[t]) = 2 /\ steps'[t][1] = "save"
      BY <3>2 DEF Ready
    <3>3. CASE Len(steps'[t]) = 3 /\ steps'[t][2] = "load"
      <4>1. Len(steps'[t]) - 1 = 2 /\ Len(steps'[t]) # 2
        BY <3>3
      <4> QED BY <3>3, <4>1 DEF Ready
    <3> QED BY <3>1, <3>2, <3>3
  <2>4. UpToDate(t)'
    BY <2>1, <2>3 DEF UpToDate
  <2> QED BY <1>2, <2>2, <2>4, OneScreen
<1> QED BY <1>6, <1>7

(* A TUI opens or closes. *)
LEMMA ListsOpens ==
  ASSUME TypeOK, StepsInv, CallInv, ListsInv, NEW t \in Tuis, Opens(t), lists' = lists
  PROVE  ListsInv' /\ Rests
<1>1. steps'[t] = <<"load", "load", "menu">>
  BY DEF Opens, TypeOK, Objects
<1>2. Len(steps'[t]) = 3 /\ steps'[t][2] = "load"
  BY <1>1, Plans DEF Labels, TuiSteps
<1>3. Len(steps'[t]) - 1 = 2 /\ Len(steps'[t]) # 2 /\ Len(steps'[t]) # 1
  BY <1>2
<1>4. UpToDate(t)'
  BY <1>2, <1>3 DEF UpToDate, Ready, Read
<1>5. \A u \in Tuis \ {t} : steps'[u] = steps[u] /\ mem'[u] = mem[u]
  BY PlanTui DEF Objects
<1>6. steps[t] # <<"menu">> /\ ~Read(t)'
  BY <1>2, <1>3, Plans DEF Opens, Labels, TuiSteps, Read
<1> QED BY <1>4, <1>5, <1>6, OneScreen, OneRests DEF ListsInv

LEMMA NotRunning ==
  ASSUME NEW t \in Tuis, steps[t] = <<>> PROVE UpToDate(t)
<1>1. Len(steps[t]) = 0
  OBVIOUS
<1> QED BY <1>1 DEF UpToDate, Ready, Read

LEMMA ListsResets ==
  ASSUME ListsInv, NEW t \in Tuis, steps'[t] = <<>>,
         lists' = [lists EXCEPT ![t] = ListsOf(Empty)],
         \A u \in Tuis \ {t} : UpToDate(u)'
  PROVE  ListsInv'
<1>1. lists' \in [Tuis -> Lists]
  BY EmptyTyped, ListsTyped DEF ListsInv
<1>2. Len(steps'[t]) = 0
  OBVIOUS
<1>3. UpToDate(t)'
  BY <1>2 DEF UpToDate, Ready, Read
<1> QED BY <1>1, <1>3 DEF ListsInv

LEMMA ListsQuits ==
  ASSUME TypeOK, StepsInv, CallInv, ListsInv, NEW t \in Tuis, Quits(t), Resets(t)
  PROVE  ListsInv'
<1>1. /\ steps'[t] = <<>> /\ lists' = [lists EXCEPT ![t] = ListsOf(Empty)]
      /\ \A u \in Tuis \ {t} : lists'[u] = lists[u]
  BY DEF Quits, Resets, TypeOK, Objects, ListsInv
<1>2. \A u \in Tuis \ {t} : steps'[u] = steps[u] /\ mem'[u] = mem[u]
  BY PlanTui DEF Objects
<1>3. \A u \in Tuis \ {t} : UpToDate(u)'
  BY <1>1, <1>2, SameUpToDate DEF ListsInv
<1> QED BY <1>1, <1>3, ListsResets

LEMMA ListsKilled ==
  ASSUME TypeOK, CallInv, ListsInv, NEW p \in Objects, Killed(p),
         IF p \in Tuis THEN Resets(p) ELSE UNCHANGED ui
  PROVE  ListsInv'
<1>1. \A o \in Objects : o # p /\ caller[o] # p =>
        steps'[o] = steps[o] /\ mem'[o] = mem[o]
  BY DEF Killed
<1>2. \A u \in Tuis : u \in Objects /\ caller[u] # p
  BY NamesAssumption DEF CallInv, Objects
<1>3. CASE p \in Tuis
  <2>1. /\ steps'[p] = <<>> /\ lists' = [lists EXCEPT ![p] = ListsOf(Empty)]
        /\ \A u \in Tuis \ {p} : lists'[u] = lists[u]
    BY <1>3 DEF Killed, Resets, ListsInv
  <2>2. \A u \in Tuis \ {p} : UpToDate(u)'
    BY <1>1, <1>2, <2>1, SameUpToDate DEF ListsInv
  <2> QED BY <1>3, <2>1, <2>2, ListsResets
<1>4. CASE p \notin Tuis
  <2>1. lists' = lists /\ \A u \in Tuis : steps'[u] = steps[u] /\ mem'[u] = mem[u]
    BY <1>1, <1>2, <1>4 DEF ui
  <2> QED BY <2>1, NoScreen
<1> QED BY <1>3, <1>4


LEMMA Lengths ==
  \A k \in Nat : /\ k # 0 /\ k # 1 => k > 2 \/ k = 2
                 /\ k # 0 /\ k # 1 /\ ~(k > 2) => k - 1 = 1
                 /\ 1 + k - 1 = k
                 /\ k > 2 => k # 1 /\ k # 2 /\ 2 + k - 1 # 1 /\ 2 + k - 1 # 2
OBVIOUS

(* What another object does leaves a TUI alone. *)
LEMMA ObjectLeaves ==
  ASSUME TypeOK, NEW o \in Objects, ObjectStep(o)
  PROVE  \A p \in Objects \ {o} : steps'[p] = steps[p] /\ mem'[p] = mem[p]
<1>1. \A p \in Objects \ {o} : steps'[p] = steps[p]
  BY DEF ObjectStep, Load, SaveOpens, SaveWrites, Asked, ListsRepos, FetchesIndex,
         Advance, Then, TypeOK
<1>2. \A p \in Objects \ {o} : mem'[p] = mem[p]
  BY LoadEffect DEF ObjectStep, SaveOpens, SaveWrites, Asked, ListsRepos, FetchesIndex,
                    TypeOK
<1> QED BY <1>1, <1>2

LEMMA ClientLeaves ==
  ASSUME TypeOK, NEW c \in Clients, ClientStep(c), ~Ends(c)
  PROVE  \A p \in Objects \ {c} : steps'[p] = steps[p] /\ mem'[p] = mem[p]
<1>1. \A p \in Objects \ {c} : steps'[p] = steps[p]
  BY DEF ClientStep, Command, Discovers, AsksServer, AddsRepo, RemovesRepo, Looks,
         FindsServer, Gets, Then, TypeOK
<1>2. \A p \in Objects \ {c} : mem'[p] = mem[p]
  BY DEF ClientStep, Command, Discovers, AsksServer, AddsRepo, RemovesRepo, Looks,
         FindsServer, Gets, TypeOK
<1> QED BY <1>1, <1>2

(* The TUI saves, asks the repositories, or reads. *)
LEMMA ListsSave ==
  ASSUME TypeOK, StepsInv, ListsInv, NEW t \in Tuis, SaveOpens(t) \/ SaveWrites(t),
         lists' = lists
  PROVE  ListsInv' /\ Rests
<1>1. t \in Objects
  BY DEF Objects
<1>2. /\ steps[t] # <<>> /\ steps[t][1] \in {"save", "write"} /\ mem' = mem
      /\ Ready(t)
  BY <1>1, ArgTyped DEF SaveOpens, SaveWrites, At, ListsInv, UpToDate
<1>3. PICK q \in {<<>>, <<"save">>, <<"write">>} : Then(t, q)
  BY <1>1, AdvanceSteps DEF SaveOpens, SaveWrites
<1>4. q \in Seq(Labels) /\ (q = <<>> \/ (Len(q) = 1 /\ q[1] \in {"load", "save", "write"}))
  <2>1. {"save", "write"} \subseteq Labels
    BY DEF Labels, TuiSteps
  <2>2. CASE q = <<>>
    BY <2>2, Plans
  <2>3. CASE q = <<"save">>
    BY <2>1, <2>3, Plans
  <2>4. CASE q = <<"write">>
    BY <2>1, <2>4, Plans
  <2> QED BY <1>3, <2>2, <2>3, <2>4
<1>5. /\ Ready(t)'
      /\ q = <<>> => /\ Len(steps'[t]) = Len(steps[t]) - 1
                     /\ Len(steps[t]) > 2 => ~Read(t)'
      /\ q # <<>> => Len(steps'[t]) = Len(q) + Len(steps[t]) - 1
  BY <1>2, <1>3, <1>4, ReadyThen
<1>6. Len(steps[t]) \in Nat /\ Len(steps[t]) # 0 /\ Len(steps[t]) # 1
  BY <1>2, LastIsMenu
<1>7. Read(t)' => Read(t)
  <2>1. CASE q = <<>>
    <3>1. ~(Len(steps[t]) > 2) => Len(steps[t]) = 2
      BY <1>6, Lengths
    <3> QED BY <1>2, <1>5, <2>1, <3>1 DEF Read
  <2>2. CASE q # <<>>
    <3>1. Len(steps'[t]) = Len(steps[t])
      BY <1>4, <1>5, <1>6, <2>2, Lengths
    <3> QED BY <1>2, <1>6, <3>1 DEF Read
  <2> QED BY <2>1, <2>2
<1>8. UpToDate(t)'
  BY <1>2, <1>5, <1>7 DEF UpToDate, ListsInv
<1>9. \A u \in Tuis \ {t} : steps'[u] = steps[u] /\ mem'[u] = mem[u]
  BY <1>1, ObjectLeaves DEF ObjectStep, Objects
<1>10. steps[t] # <<"menu">>
  BY <1>2, Plans DEF Labels, TuiSteps
<1> QED BY <1>7, <1>8, <1>9, <1>10, OneScreen, OneRests DEF ListsInv

LEMMA ListsAsk ==
  ASSUME TypeOK, StepsInv, ListsInv, NEW t \in Tuis,
         Asked(t) \/ ListsRepos(t) \/ FetchesIndex(t), lists' = lists
  PROVE  ListsInv' /\ Rests
<1>1. t \in Objects
  BY DEF Objects
<1>2. /\ steps[t] # <<>> /\ steps[t][1] \in {"servers", "fetch", "repos"} /\ Ready(t)
  BY <1>1, ArgTyped DEF Asked, ListsRepos, FetchesIndex, At, ListsInv, UpToDate
<1>3. Len(steps[t]) \in Nat /\ Len(steps[t]) > 2
  <2>1. Len(steps[t]) \in Nat /\ Len(steps[t]) # 0 /\ Len(steps[t]) # 1
    BY <1>2, LastIsMenu
  <2>2. Len(steps[t]) # 2
    BY <1>2 DEF Ready
  <2>3. \A k \in Nat : k # 0 /\ k # 1 /\ k # 2 => k > 2
    OBVIOUS
  <2> QED BY <2>1, <2>2, <2>3
<1>4. UpToDate(t)' /\ (Read(t)' => Read(t))
  <2>1. CASE FetchesIndex(t)
    <3>1. steps' = steps
      BY <2>1 DEF FetchesIndex
    <3>2. ~Read(t)
      BY <1>3, Lengths DEF Read
    <3> QED BY <3>1, <3>2, SameUpToDate DEF ListsInv, Read
  <2>2. CASE Asked(t) \/ ListsRepos(t)
    <3>1. PICK q \in {<<>>, <<"fetch", "save">>} : Then(t, q)
      BY <2>2 DEF Asked, ListsRepos
    <3>2. q \in Seq(Labels) /\ (q = <<>> \/ Len(q) = 2)
      <4>1. {"fetch", "save"} \subseteq Labels
        BY DEF Labels, TuiSteps
      <4>2. CASE q = <<>>
        BY <4>2, Plans
      <4>3. CASE q = <<"fetch", "save">>
        BY <4>1, <4>3, Plans
      <4> QED BY <3>1, <4>2, <4>3
    <3>3. /\ Ready(t)'
          /\ q = <<>> => ~Read(t)'
          /\ q # <<>> => Len(steps'[t]) = Len(q) + Len(steps[t]) - 1
      BY <1>2, <1>3, <3>1, <3>2, ReadyThen
    <3>4. ~Read(t)'
      <4>1. CASE q = <<>>
        BY <3>3, <4>1
      <4>2. CASE q # <<>>
        <5>1. Len(steps'[t]) # 1 /\ Len(steps'[t]) # 2
          BY <1>3, <3>2, <3>3, <4>2, Lengths
        <5> QED BY <5>1 DEF Read
      <4> QED BY <4>1, <4>2
    <3> QED BY <3>3, <3>4 DEF UpToDate
  <2> QED BY <2>1, <2>2
<1>5. \A u \in Tuis \ {t} : steps'[u] = steps[u] /\ mem'[u] = mem[u]
  BY <1>1, ObjectLeaves DEF ObjectStep, Objects
<1>6. steps[t] # <<"menu">>
  BY <1>2, Plans DEF Labels, TuiSteps
<1> QED BY <1>4, <1>5, <1>6, OneScreen, OneRests DEF ListsInv

LEMMA ListsReads ==
  ASSUME TypeOK, StepsInv, CallInv, ListsInv, NEW t \in Tuis, Reads(t)
  PROVE  /\ ListsInv'
         /\ Read(t)' => steps'[t] = <<"menu">>
         /\ steps[t] # <<"menu">>
         /\ \A u \in Tuis \ {t} : steps'[u] = steps[u] /\ lists'[u] = lists[u]
<1>1. t \in Objects /\ Load(t)
  BY DEF Objects, Reads
<1>2. steps[t] # <<>> /\ steps[t][1] = "load" /\ Ready(t)
  BY <1>1, ArgTyped DEF Load, At, ListsInv, UpToDate
<1>3. mem'[t] \in Databases
  BY <1>1, LoadEffect
<1>4. /\ lists' \in [Tuis -> Lists]
      /\ \A u \in Tuis \ {t} : lists'[u] = lists[u]
      /\ steps'[t] = <<"menu">> => lists'[t] = ListsOf(mem'[t])
  BY <1>3, ListsTyped DEF Reads, ListsInv
<1>5. PICK q \in {<<>>, <<"load">>} : Then(t, q)
  BY <1>1, AdvanceSteps DEF Load
<1>6. q \in Seq(Labels) /\ (q = <<>> \/ (Len(q) = 1 /\ q[1] = "load"))
  <2>1. "load" \in Labels
    BY DEF Labels, TuiSteps
  <2>2. CASE q = <<>>
    BY <2>2, Plans
  <2>3. CASE q = <<"load">>
    BY <2>1, <2>3, Plans
  <2> QED BY <1>5, <2>2, <2>3
<1>7. /\ Ready(t)'
      /\ q = <<>> => /\ Len(steps'[t]) = Len(steps[t]) - 1
                     /\ Len(steps[t]) > 2 => ~Read(t)'
      /\ q # <<>> => /\ steps'[t][1] = q[1]
                     /\ Len(steps'[t]) = Len(q) + Len(steps[t]) - 1
  BY <1>2, <1>5, <1>6, ReadyThen
<1>8. Len(steps[t]) \in Nat /\ Len(steps[t]) # 0 /\ Len(steps[t]) # 1
  BY <1>2, LastIsMenu
<1>9. Read(t)' => steps'[t] = <<"menu">>
  <2>1. CASE q = <<>>
    <3>1. ~(Len(steps[t]) > 2) => Len(steps'[t]) = 1
      BY <1>7, <1>8, <2>1, Lengths
    <3>2. TypeOK' /\ StepsInv'
      BY <1>1, TypeObject, PlanObject DEF ObjectStep
    <3>3. steps'[t] # <<>>
      BY <1>1, <1>2, PlanObject DEF ObjectStep
    <3>4. Len(steps'[t]) = 1 => steps'[t] = <<"menu">>
      <4>1. /\ steps'[t] \in Seq(Labels)
            /\ Len(steps'[t]) = 1 => 1 \in 1..Len(steps'[t])
        <5>1. steps'[t] \in Seq(Labels)
          BY <1>1, <3>2 DEF TypeOK, Labels
        <5>2. \A k \in Nat : k = 1 => 1 \in 1..k
          OBVIOUS
        <5> QED BY <5>1, <5>2
      <4>2. Len(steps'[t]) = 1 => steps'[t][1] \in {"end", "menu"} /\ steps'[t][1] \in TuiSteps
        BY <1>1, <3>2, <4>1 DEF StepsInv
      <4>3. Len(steps'[t]) = 1 => steps'[t][1] = "menu"
        BY <4>2 DEF TuiSteps
      <4> QED BY <4>1, <4>3
    <3> QED BY <1>7, <2>1, <3>1, <3>4
  <2>2. CASE q # <<>>
    <3>1. steps'[t][1] = "load" /\ Len(steps'[t]) # 1
      BY <1>6, <1>7, <1>8, <2>2, Lengths
    <3> QED BY <3>1 DEF Read
  <2> QED BY <2>1, <2>2
<1>10. UpToDate(t)'
  BY <1>4, <1>7, <1>9 DEF UpToDate
<1>11. \A u \in Tuis \ {t} : steps'[u] = steps[u] /\ mem'[u] = mem[u]
  BY <1>1, ObjectLeaves DEF ObjectStep, Objects
<1>12. steps[t] # <<"menu">>
  BY <1>2, Plans DEF Labels, TuiSteps
<1> QED BY <1>4, <1>9, <1>10, <1>11, <1>12, OneScreen

(* A command ends, and a TUI waited for it. *)
LEMMA ListsEnds ==
  ASSUME TypeOK, StepsInv, CallInv, ListsInv, NEW c \in Clients, Ends(c), lists' = lists
  PROVE  ListsInv' /\ Rests
<1>1. \A u \in Tuis : u \in Objects /\ u # c
  BY NamesAssumption DEF Objects
<1>2. ASSUME NEW u \in Tuis, u # caller[c] PROVE UpToDate(u)'
  <2>1. steps'[u] = steps[u] /\ mem'[u] = mem[u]
    BY <1>1, <1>2, PlanEnds
  <2> QED BY <2>1, SameUpToDate DEF ListsInv
<1>3. ASSUME NEW u \in Tuis, u = caller[c]
      PROVE  UpToDate(u)' /\ (Read(u)' => Read(u)) /\ steps[u] # <<"menu">>
  <2> DEFINE m == Len(steps[u])
  <2>1. /\ m > 1 /\ Len(steps'[u]) = m - 1 /\ mem'[u] = mem[u]
        /\ \A i \in 1..(m - 1) : steps'[u][i] = steps[u][i + 1]
    <3>1. u \in Objects /\ u # c
      BY <1>1
    <3>2. mem'[u] = mem[u]
      BY <3>1, PlanEnds
    <3>3. /\ m > 1 /\ Len(steps'[u]) = m - 1
          /\ \A i \in 1..Len(steps'[u]) : steps'[u][i] = steps[u][i + 1]
      BY <1>3, <3>1, PlanEnds
    <3> QED BY <3>2, <3>3
  <2>2. m \in Nat /\ steps[u][1] = "calls" /\ Ready(u)
    <3>1. caller[c] # None /\ c \in Objects /\ u \in Objects
      BY <1>1, <1>3, NamesAssumption DEF Objects
    <3>2. steps[u][1] = "calls" /\ steps[u] # <<>>
      BY <1>3, <3>1 DEF CallInv
    <3>3. m \in Nat
      BY <3>2, LastIsMenu
    <3>4. Ready(u)
      BY DEF ListsInv, UpToDate
    <3> QED BY <3>2, <3>3, <3>4
  <2>3. m > 2 => steps[u][m - 1] = "load"
    BY <2>2 DEF Ready
  <2>4. m = 2 => Read(u)
    BY <2>2 DEF Read
  <2>5. steps[u] # <<"menu">>
    BY <2>2, Plans DEF Labels, TuiSteps
  <2> HIDE DEF m
  <2>6. CASE m = 2
    <3>1. Len(steps'[u]) = 1
      BY <2>1, <2>6
    <3>2. lists'[u] = ListsOf(mem'[u])
      BY <2>1, <2>4, <2>6 DEF UpToDate, ListsInv
    <3> QED BY <2>4, <2>6, <2>5, <3>1, <3>2 DEF UpToDate, Ready
  <2>7. CASE m = 3
    <3>1. Len(steps'[u]) = 2 /\ 1 \in 1..(m - 1) /\ 1 + 1 = m - 1 /\ m > 2
      BY <2>1, <2>7
    <3>2. steps'[u][1] = "load"
      BY <2>1, <2>3, <3>1
    <3> QED BY <2>5, <3>1, <3>2 DEF UpToDate, Ready, Read
  <2>8. CASE m > 3
    <3>1. /\ Len(steps'[u]) # 1 /\ Len(steps'[u]) # 2 /\ m > 2
          /\ Len(steps'[u]) - 1 \in 1..(m - 1) /\ (Len(steps'[u]) - 1) + 1 = m - 1
      BY <2>1, <2>2, <2>8
    <3>2. steps'[u][Len(steps'[u]) - 1] = "load"
      BY <2>1, <2>3, <3>1
    <3> QED BY <2>5, <3>1, <3>2 DEF UpToDate, Ready, Read
  <2>9. m = 2 \/ m = 3 \/ m > 3
    BY <2>1, <2>2
  <2> QED BY <2>6, <2>7, <2>8, <2>9
<1>4. ASSUME NEW u \in Tuis, u # caller[c] PROVE steps'[u] = steps[u]
  BY <1>1, <1>4, PlanEnds
<1>5. Rests
  BY <1>3, <1>4 DEF Rests, Read
<1> QED BY <1>2, <1>3, <1>5 DEF ListsInv

-----------------------------------------------------------------------------
(* What a key does is what ClientDB allows.                                *)

(* The highlighted row is one of the database. *)
LEMMA HighlightedIsThere ==
  ASSUME ListsInv, NEW t \in Tuis, Waits(t, "keys")
  PROVE  /\ view[t] = "repos" => Highlighted(t) \subseteq mem[t].repos
         /\ view[t] = "installed" => Highlighted(t) \subseteq mem[t].inst
<1>1. Highlighted(t) \subseteq lists[t][view[t]]
  BY DEF Highlighted, Rows, Waits
<1>2. lists[t] = ListsOf(mem[t])
  BY AtMenu DEF Waits
<1>3. view[t] = "repos" => lists[t][view[t]] = mem[t].repos
  BY <1>2 DEF ListsOf
<1>4. view[t] = "installed" => lists[t][view[t]] = mem[t].inst
  BY <1>2 DEF ListsOf
<1> QED BY <1>1, <1>3, <1>4

LEMMA RowKeys ==
  ASSUME ListsInv, NEW t \in Tuis
  PROVE  /\ RemovesRow(t) => Edits(t)
         /\ Untracks(t) => Edits(t)
<1>1. ASSUME RemovesRow(t) PROVE Edits(t)
  <2>1. PICK r \in Highlighted(t) :
          /\ mem' = [mem EXCEPT ![t].repos = @ \ {r}]
          /\ did' = did \ {r}
    BY <1>1 DEF RemovesRow
  <2>2. r \in mem[t].repos
    BY <1>1, <2>1, HighlightedIsThere DEF RemovesRow
  <2> QED BY <1>1, <2>1, <2>2 DEF RemovesRow, Edits, Waits
<1>2. ASSUME Untracks(t) PROVE Edits(t)
  <2>1. PICK n \in Highlighted(t) :
          /\ mem' = [mem EXCEPT ![t].inst = @ \ {n}]
          /\ did' = did \ {n}
    BY <1>2 DEF Untracks
  <2>2. n \in mem[t].inst
    BY <1>2, <2>1, HighlightedIsThere DEF Untracks
  <2> QED BY <1>2, <2>1, <2>2 DEF Untracks, Edits, Waits
<1> QED BY <1>1, <1>2

LEMMA KeyStep ==
  ASSUME TypeOK, StepsInv, CallInv, ListsInv, NEW t \in Tuis, Key(t)
  PROVE  ListsInv' /\ [Next]_vars
<1>1. CASE SwitchesView(t) \/ Moves(t) \/ StartsSearch(t) \/ Narrows(t)
           \/ Widens(t) \/ EndsSearch(t) \/ Prompts(t) \/ CancelsPrompt(t)
  <2>1. UNCHANGED vars /\ lists' = lists
    BY <1>1 DEF SwitchesView, Moves, StartsSearch, Narrows, Widens, EndsSearch,
                Prompts, CancelsPrompt
  <2>2. steps' = steps /\ mem' = mem
    BY <2>1 DEF vars
  <2> QED BY <2>1, <2>2, NoScreen
<1>2. CASE Scans(t) \/ GetsRow(t)
  <2>1. Calls(t) /\ lists' = lists
    BY <1>2 DEF Scans, GetsRow, Runs, ui
  <2> QED BY <2>1, ListsCalls DEF Next, TuiStep
<1>3. CASE AddsRow(t)
  <2>1. /\ Edits(t) /\ lists' = [lists EXCEPT ![t].repos = mem'[t].repos]
        /\ \E x : mem'[t] = [mem[t] EXCEPT !.repos = x]
    BY <1>3 DEF AddsRow
  <2> QED BY <2>1, ListsEdits DEF Next, TuiStep
<1>4. CASE RemovesRow(t)
  <2>1. Edits(t)
    BY <1>4, RowKeys
  <2>2. PICK r : mem' = [mem EXCEPT ![t].repos = @ \ {r}]
    BY <1>4 DEF RemovesRow
  <2>3. mem'[t] = [mem[t] EXCEPT !.repos = mem[t].repos \ {r}]
    BY <2>2 DEF TypeOK, Objects
  <2>4. lists' = [lists EXCEPT ![t].repos = mem'[t].repos]
    BY <1>4 DEF RemovesRow
  <2> QED BY <2>1, <2>3, <2>4, ListsEdits DEF Next, TuiStep
<1>5. CASE Untracks(t)
  <2>1. Edits(t)
    BY <1>5, RowKeys
  <2>2. lists' = lists /\ steps'[t] = <<"save", "load", "menu">>
    BY <1>5 DEF Untracks, ui, TypeOK, Objects
  <2> QED BY <2>1, <2>2, ListsEdits DEF Next, TuiStep
<1>6. CASE Leaves(t)
  <2>1. Quits(t) /\ Resets(t)
    BY <1>6 DEF Leaves
  <2> QED BY <2>1, ListsQuits DEF Next, TuiStep
<1> QED BY <1>1, <1>2, <1>3, <1>4, <1>5, <1>6 DEF Key

LEMMA GoesStep ==
  ASSUME TypeOK, StepsInv, CallInv, ListsInv, Goes
  PROVE  ListsInv' /\ Rests /\ [Next]_vars
<1>1. lists' = lists
  BY DEF Goes, ui
<1>2. \A u \in Tuis : u \in Objects /\ u \notin Clients
  BY NamesAssumption DEF Objects
<1>3. ASSUME NEW t \in Tuis, Opens(t) PROVE ListsInv' /\ Rests /\ [Next]_vars
  BY <1>1, <1>3, ListsOpens DEF Next, TuiStep
<1>4. ASSUME NEW o \in Objects, SaveOpens(o) \/ SaveWrites(o) \/ Asked(o)
                                \/ ListsRepos(o) \/ FetchesIndex(o)
      PROVE  ListsInv' /\ Rests /\ [Next]_vars
  <2>1. ObjectStep(o)
    BY <1>4 DEF ObjectStep
  <2>2. CASE o \in Tuis
    BY <1>1, <1>4, <2>1, <2>2, ListsSave, ListsAsk DEF Next
  <2>3. CASE o \notin Tuis
    <3>1. \A u \in Tuis : steps'[u] = steps[u] /\ mem'[u] = mem[u]
      BY <1>2, <2>1, <2>3, ObjectLeaves
    <3> QED BY <1>1, <2>1, <3>1, NoScreen DEF Next
  <2> QED BY <2>2, <2>3
<1>5. ASSUME NEW c \in Clients, Load(c) PROVE ListsInv' /\ Rests /\ [Next]_vars
  <2>1. ObjectStep(c) /\ c \in Objects
    BY <1>5 DEF ObjectStep, Objects
  <2>2. \A u \in Tuis : steps'[u] = steps[u] /\ mem'[u] = mem[u]
    BY <1>2, <2>1, ObjectLeaves
  <2> QED BY <1>1, <2>1, <2>2, NoScreen DEF Next
<1>6. ASSUME NEW c \in Clients, ClientStep(c) PROVE ListsInv' /\ Rests /\ [Next]_vars
  <2>1. CASE Ends(c)
    BY <1>1, <1>6, <2>1, ListsEnds DEF Next
  <2>2. CASE ~Ends(c)
    <3>1. \A u \in Tuis : steps'[u] = steps[u] /\ mem'[u] = mem[u]
      BY <1>2, <1>6, <2>2, ClientLeaves
    <3> QED BY <1>1, <1>6, <3>1, NoScreen DEF Next
  <2> QED BY <2>1, <2>2
<1> QED BY <1>3, <1>4, <1>5, <1>6 DEF Goes

-----------------------------------------------------------------------------
(* What is highlighted.                                                    *)

(* Counted by rank, a finite set has a row for every number below its size.*)
LEMMA RowOf ==
  ASSUME NEW S, IsFiniteSet(S), NEW r, \A x \in S : r[x] \in Nat,
         \A x, y \in S : r[x] = r[y] => x = y, NEW i \in Nat, i < Cardinality(S)
  PROVE  \E x \in S : Cardinality({y \in S : r[y] < r[x]}) = i
<1> DEFINE Below(x) == {y \in S : r[y] < r[x]}
           n == Cardinality(S)
           T == (0..(n - 1)) \ {i}
           g == [x \in S |-> Cardinality(Below(x))]
<1> SUFFICES ASSUME \A x \in S : Cardinality(Below(x)) # i PROVE FALSE
  OBVIOUS
<1>1. n \in Nat /\ n # 0
  BY FS_CardinalityType
<1>2. IsFiniteSet(T) /\ Cardinality(T) < n
  <2>1. IsFiniteSet(0..(n - 1)) /\ Cardinality(0..(n - 1)) = n
    <3> HIDE DEF n
    <3>1. 0 \in Int /\ n - 1 \in Int /\ ~(0 > n - 1) /\ (n - 1) - 0 + 1 = n
      BY <1>1
    <3> QED BY <3>1, FS_Interval
  <2>2. i \in 0..(n - 1)
    BY <1>1
  <2>3. Cardinality(T) = n - 1 /\ IsFiniteSet(T)
    BY <2>1, <2>2, FS_RemoveElement
  <2> QED BY <1>1, <2>3
<1>3. ASSUME NEW x \in S
      PROVE  IsFiniteSet(Below(x)) /\ Cardinality(Below(x)) \in 0..(n - 1)
  <2>1. Below(x) \subseteq S /\ x \notin Below(x)
    BY <1>3
  <2>2. IsFiniteSet(Below(x)) /\ Cardinality(Below(x)) <= n
    BY <2>1, FS_Subset
  <2>3. Cardinality(Below(x)) # n
    BY <1>3, <2>1, FS_Subset
  <2>4. Cardinality(Below(x)) \in Nat
    BY <2>2, FS_CardinalityType
  <2> HIDE DEF Below, n
  <2> QED BY <1>1, <2>2, <2>3, <2>4
<1>4. g \in [S -> T]
  BY <1>3
<1>5. PICK x, y \in S : x # y /\ g[x] = g[y]
  <2> HIDE DEF g, T, n
  <2> QED BY <1>2, <1>4, FS_PigeonHole DEF n
<1>6. ASSUME NEW a \in S, NEW b \in S, r[a] < r[b], g[a] = g[b] PROVE FALSE
  <2>1. Below(a) \subseteq Below(b) /\ a \in Below(b) /\ a \notin Below(a)
    BY <1>6
  <2>2. Cardinality(Below(a)) = Cardinality(Below(b))
    BY <1>6
  <2> QED BY <1>3, <2>1, <2>2, FS_Subset
<1>7. r[x] < r[y] \/ r[y] < r[x]
  BY <1>5
<1> QED BY <1>5, <1>6, <1>7

Modes == {"keys", "search", "name", "url"}

Typed ==
  /\ view \in [Tuis -> Views] /\ mode \in [Tuis -> Modes]
  /\ found \in [Tuis -> SUBSET Names] /\ sel \in [Tuis -> Nat]

(* A mode other than that of the keys is left before the TUI does anything *)
(* else; what is highlighted is a row as soon as nothing is read any more. *)
Screen(t) ==
  /\ mode[t] # "keys" => steps[t] = <<"menu">>
  /\ mode[t] = "search" => view[t] = "packages" /\ found[t] \subseteq lists[t].packages
  /\ mode[t] \in {"name", "url"} => view[t] = "repos"
  /\ Read(t) => sel[t] < Size(t) \/ Size(t) = 0

ScreenInv == Typed /\ \A t \in Tuis : Screen(t)

LEMMA RowsFinite ==
  ASSUME NEW t \in Tuis, lists[t] \in Lists, view[t] \in Views, found[t] \subseteq Names
  PROVE  /\ Rows(t) \subseteq Names \cup Sources /\ IsFiniteSet(Rows(t))
         /\ Size(t) \in Nat
<1>1. Rows(t) \subseteq Names \cup Sources
  BY DEF Rows, Views, Lists, Sources
<1>2. IsFiniteSet(Rows(t))
  BY <1>1, FiniteAssumption, FS_Union, FS_Subset
<1> QED BY <1>1, <1>2, FS_CardinalityType DEF Size

LEMMA DrawsRow ==
  ASSUME NEW t \in Tuis, sel \in [Tuis -> Nat], NEW s \in Int, Draws(t, s),
         Size(t)' \in Nat
  PROVE  /\ sel' \in [Tuis -> Nat]
         /\ sel'[t] < Size(t)' \/ Size(t)' = 0
         /\ \A u \in Tuis \ {t} : sel'[u] = sel[u]
<1> DEFINE n == Size(t)'
           v == IF s < 0 \/ n = 0 THEN 0 ELSE IF s >= n THEN n - 1 ELSE s
<1>1. sel' = [sel EXCEPT ![t] = v]
  BY DEF Draws
<1> HIDE DEF n
<1>2. v \in Nat /\ (v < n \/ n = 0)
  BY DEF n
<1> HIDE DEF v
<1>3. sel' \in [Tuis -> Nat] /\ sel'[t] = v /\ \A u \in Tuis \ {t} : sel'[u] = sel[u]
  BY <1>1, <1>2
<1> QED BY <1>2, <1>3 DEF n

(* The screen stays, while nothing is newly read. *)
LEMMA SameScreen ==
  ASSUME NEW t \in Tuis, Screen(t), Read(t)' => Read(t), view'[t] = view[t],
         sel'[t] = sel[t], mode'[t] = mode[t], found'[t] = found[t],
         lists'[t] = lists[t], mode[t] # "keys" => steps'[t] = <<"menu">>
  PROVE  Screen(t)'
<1>1. Rows(t)' = Rows(t)
  BY DEF Rows
<1>2. Size(t)' = Size(t)
  BY <1>1 DEF Size
<1> QED BY <1>2 DEF Screen

(* One TUI draws its screen. *)
LEMMA DrawnScreen ==
  ASSUME ListsInv', ScreenInv, NEW t \in Tuis, NEW s \in Int, Draws(t, s),
         view' \in [Tuis -> Views], mode' \in [Tuis -> Modes],
         found' \in [Tuis -> SUBSET Names],
         mode'[t] # "keys" => steps'[t] = <<"menu">>,
         mode'[t] = "search" => /\ view'[t] = "packages"
                                /\ found'[t] \subseteq lists'[t].packages,
         mode'[t] \in {"name", "url"} => view'[t] = "repos",
         \A u \in Tuis \ {t} :
           /\ steps'[u] = steps[u] /\ view'[u] = view[u] /\ mode'[u] = mode[u]
           /\ found'[u] = found[u] /\ lists'[u] = lists[u]
  PROVE  ScreenInv'
<1>1. Size(t)' \in Nat
  <2>1. lists'[t] \in Lists /\ view'[t] \in Views /\ found'[t] \subseteq Names
    BY DEF ListsInv
  <2>2. Rows(t)' \subseteq Names \cup Sources
    BY <2>1 DEF Rows, Views, Lists, Sources
  <2>3. IsFiniteSet(Rows(t)')
    BY <2>2, FiniteAssumption, FS_Union, FS_Subset
  <2> QED BY <2>3, FS_CardinalityType DEF Size
<1>2. /\ sel' \in [Tuis -> Nat]
      /\ sel'[t] < Size(t)' \/ Size(t)' = 0
      /\ \A u \in Tuis \ {t} : sel'[u] = sel[u]
  BY <1>1, DrawsRow DEF ScreenInv, Typed
<1>3. Screen(t)'
  BY <1>2 DEF Screen
<1>4. ASSUME NEW u \in Tuis \ {t} PROVE Screen(u)'
  <2>1. Screen(u) /\ (Read(u)' => Read(u)) /\ (mode[u] # "keys" => steps'[u] = <<"menu">>)
    BY <1>4 DEF ScreenInv, Screen, Read
  <2> QED BY <1>2, <1>4, <2>1, SameScreen
<1> QED BY <1>2, <1>3, <1>4 DEF ScreenInv, Typed

LEMMA ReadAtMenu ==
  ASSUME NEW t \in Tuis, steps[t] = <<"menu">> PROVE Read(t)
BY Plans DEF Read, Labels, TuiSteps

LEMMA OthersScreens ==
  ASSUME ScreenInv, Typed', NEW t \in Tuis, Screen(t)',
         \A u \in Tuis \ {t} :
           /\ steps'[u] = steps[u] /\ view'[u] = view[u] /\ mode'[u] = mode[u]
           /\ found'[u] = found[u] /\ lists'[u] = lists[u] /\ sel'[u] = sel[u]
  PROVE  ScreenInv'
<1>1. ASSUME NEW u \in Tuis \ {t} PROVE Screen(u)'
  <2>1. Screen(u) /\ (Read(u)' => Read(u)) /\ (mode[u] # "keys" => steps'[u] = <<"menu">>)
    BY <1>1 DEF ScreenInv, Screen, Read
  <2> QED BY <1>1, <2>1, SameScreen
<1> QED BY <1>1 DEF ScreenInv

LEMMA ScreenRests ==
  ASSUME ScreenInv, Rests, UNCHANGED ui PROVE ScreenInv'
<1>1. ASSUME NEW u \in Tuis PROVE Screen(u)'
  <2>1. Screen(u) /\ (Read(u)' => Read(u)) /\ (mode[u] # "keys" => steps'[u] = <<"menu">>)
    BY DEF ScreenInv, Screen, Rests
  <2>2. /\ view'[u] = view[u] /\ sel'[u] = sel[u] /\ mode'[u] = mode[u]
        /\ found'[u] = found[u] /\ lists'[u] = lists[u]
    BY DEF ui
  <2> QED BY <2>1, <2>2, SameScreen
<1>2. Typed'
  BY DEF ScreenInv, Typed, ui
<1> QED BY <1>1, <1>2 DEF ScreenInv

(* t is asked for a command or to untrack: it shows what it showed. *)
LEMMA ScreenWorks ==
  ASSUME ScreenInv, NEW t \in Tuis, Waits(t, "keys"), UNCHANGED ui,
         \A u \in Tuis \ {t} : steps'[u] = steps[u]
  PROVE  ScreenInv'
<1>1. Typed' /\ Screen(t) /\ Read(t) /\ mode[t] = "keys"
  BY ReadAtMenu DEF ScreenInv, Typed, ui, Waits
<1>2. Screen(t)'
  BY <1>1, SameScreen DEF ui
<1> QED BY <1>1, <1>2, OthersScreens DEF ui

LEMMA ScreenResets ==
  ASSUME ScreenInv, NEW t \in Tuis, Resets(t), steps'[t] = <<>>, lists \in [Tuis -> Lists],
         \A u \in Tuis \ {t} : steps'[u] = steps[u]
  PROVE  ScreenInv'
<1>1. Len(steps'[t]) = 0
  OBVIOUS
<1>2. /\ Typed' /\ mode'[t] = "keys"
      /\ \A u \in Tuis \ {t} :
           /\ view'[u] = view[u] /\ mode'[u] = mode[u] /\ found'[u] = found[u]
           /\ lists'[u] = lists[u] /\ sel'[u] = sel[u]
  BY DEF ScreenInv, Typed, Resets, Views, Modes
<1>3. Screen(t)'
  BY <1>1, <1>2 DEF Screen, Read
<1> QED BY <1>2, <1>3, OthersScreens

LEMMA ScreenReads ==
  ASSUME TypeOK, StepsInv, CallInv, ListsInv, ScreenInv, NEW t \in Tuis, Reads(t)
  PROVE  ScreenInv'
<1>1. /\ ListsInv' /\ steps[t] # <<"menu">>
      /\ Read(t)' => steps'[t] = <<"menu">>
      /\ \A u \in Tuis \ {t} : steps'[u] = steps[u] /\ lists'[u] = lists[u]
  BY ListsReads
<1>2. mode[t] = "keys" /\ sel[t] \in Int
  BY <1>1 DEF ScreenInv, Screen, Typed
<1>3. view' = view /\ mode' = mode /\ found' = found
  BY DEF Reads
<1>4. CASE steps'[t] = <<"menu">>
  <2>1. Draws(t, sel[t])
    BY <1>4 DEF Reads
  <2> QED BY <1>1, <1>2, <1>3, <2>1, DrawnScreen DEF ScreenInv, Typed
<1>5. CASE steps'[t] # <<"menu">>
  <2>1. sel' = sel /\ ~Read(t)'
    BY <1>1, <1>5 DEF Reads
  <2>2. Typed' /\ Screen(t)'
    BY <1>2, <1>3, <2>1 DEF ScreenInv, Typed, Screen
  <2> QED BY <1>1, <1>3, <2>1, <2>2, OthersScreens
<1> QED BY <1>4, <1>5

(* Nothing but the screen changes, and it is drawn. *)
LEMMA ScreenDrawn ==
  ASSUME ListsInv, ListsInv', ScreenInv, NEW t \in Tuis, steps[t] = <<"menu">>,
         SwitchesView(t) \/ Moves(t) \/ StartsSearch(t) \/ Narrows(t)
           \/ Widens(t) \/ EndsSearch(t)
  PROVE  ScreenInv'
<1>1. /\ steps' = steps /\ lists' = lists
      /\ view \in [Tuis -> Views] /\ mode \in [Tuis -> Modes]
      /\ found \in [Tuis -> SUBSET Names] /\ sel[t] \in Nat
      /\ lists[t] \in Lists /\ view[t] \in Views /\ found[t] \subseteq Names
  BY DEF SwitchesView, Moves, StartsSearch, Narrows, Widens, EndsSearch, vars,
         ScreenInv, Typed, ListsInv
<1>2. /\ mode[t] = "search" => view[t] = "packages" /\ found[t] \subseteq lists[t].packages
      /\ lists[t].packages \subseteq Names
  BY <1>1 DEF ScreenInv, Screen, Lists
<1>3. CASE SwitchesView(t)
  <2>1. PICK v \in Views : view' = [view EXCEPT ![t] = v]
    BY <1>3 DEF SwitchesView
  <2>2. Draws(t, 0) /\ mode' = mode /\ found' = found /\ mode[t] = "keys"
    BY <1>3 DEF SwitchesView, Waits
  <2> QED BY <1>1, <2>1, <2>2, DrawnScreen
<1>4. CASE Moves(t)
  <2>1. Size(t) \in Nat /\ Page \in Nat
    BY <1>1, RowsFinite, PageAssumption
  <2>2. PICK s \in {sel[t] - 1, sel[t] + 1, sel[t] - Page, sel[t] + Page, 0, Size(t) - 1} :
          Draws(t, IF s < Size(t) THEN s ELSE Size(t) - 1)
    BY <1>4 DEF Moves
  <2>3. (IF s < Size(t) THEN s ELSE Size(t) - 1) \in Int
    BY <1>1, <2>1
  <2>4. view' = view /\ mode' = mode /\ found' = found /\ mode[t] = "keys"
    BY <1>4 DEF Moves, Waits
  <2> QED BY <1>1, <2>2, <2>3, <2>4, DrawnScreen
<1>5. CASE StartsSearch(t)
  <2>1. /\ view' = view /\ view[t] = "packages" /\ mode' = [mode EXCEPT ![t] = "search"]
        /\ found' = [found EXCEPT ![t] = lists[t].packages] /\ Draws(t, sel[t])
    BY <1>5 DEF StartsSearch, Mode
  <2>2. mode' \in [Tuis -> Modes] /\ found' \in [Tuis -> SUBSET Names]
    BY <1>1, <1>2, <2>1 DEF Modes
  <2> QED BY <1>1, <2>1, <2>2, DrawnScreen
<1>6. CASE Narrows(t)
  <2>1. PICK S \in SUBSET found[t] : found' = [found EXCEPT ![t] = S]
    BY <1>6 DEF Narrows
  <2>2. view' = view /\ mode' = mode /\ mode[t] = "search" /\ Draws(t, 0)
    BY <1>6 DEF Narrows, Waits
  <2>3. found' \in [Tuis -> SUBSET Names]
    BY <1>1, <2>1
  <2> QED BY <1>1, <1>2, <2>1, <2>2, <2>3, DrawnScreen
<1>7. CASE Widens(t)
  <2>1. PICK S \in SUBSET lists[t].packages : found' = [found EXCEPT ![t] = S]
    BY <1>7 DEF Widens
  <2>2. view' = view /\ mode' = mode /\ mode[t] = "search" /\ Draws(t, sel[t])
    BY <1>7 DEF Widens, Waits
  <2>3. found' \in [Tuis -> SUBSET Names]
    BY <1>1, <1>2, <2>1
  <2> QED BY <1>1, <1>2, <2>1, <2>2, <2>3, DrawnScreen
<1>8. CASE EndsSearch(t)
  <2>1. /\ view' = view /\ found' = found /\ mode' = [mode EXCEPT ![t] = "keys"]
        /\ Draws(t, sel[t])
    BY <1>8 DEF EndsSearch, Mode
  <2>2. mode' \in [Tuis -> Modes]
    BY <1>1, <2>1 DEF Modes
  <2> QED BY <1>1, <2>1, <2>2, DrawnScreen
<1> QED BY <1>3, <1>4, <1>5, <1>6, <1>7, <1>8

(* The prompt for a repository comes and goes: the rows are those of the   *)
(* view before and after.                                                  *)
LEMMA ScreenPrompts ==
  ASSUME ScreenInv, NEW t \in Tuis, Prompts(t) \/ CancelsPrompt(t)
  PROVE  ScreenInv'
<1>1. /\ steps[t] = <<"menu">> /\ steps' = steps /\ view' = view /\ sel' = sel
      /\ lists' = lists /\ found' = found
  BY DEF Prompts, CancelsPrompt, Waits, vars
<1>2. PICK m \in {"keys", "name", "url"} : mode' = [mode EXCEPT ![t] = m]
  BY DEF Prompts, CancelsPrompt, Mode
<1>3. mode[t] \in {"keys", "name", "url"} /\ (m # "keys" => view[t] = "repos")
  <2>1. Screen(t) /\ mode \in [Tuis -> Modes]
    BY DEF ScreenInv, Typed
  <2>2. mode'[t] = m
    BY <1>2, <2>1
  <2> QED BY <1>1, <2>1, <2>2 DEF Screen, Prompts, CancelsPrompt, Waits, Mode, Modes
<1>4. Typed' /\ mode'[t] = m /\ \A u \in Tuis \ {t} : mode'[u] = mode[u]
  BY <1>1, <1>2 DEF ScreenInv, Typed, Modes
<1>5. Rows(t)' = Rows(t)
  BY <1>1, <1>3, <1>4 DEF Rows
<1>6. Size(t)' = Size(t)
  BY <1>5 DEF Size
<1>7. Screen(t)'
  BY <1>1, <1>3, <1>4, <1>6, ReadAtMenu DEF ScreenInv, Screen
<1> QED BY <1>1, <1>4, <1>7, OthersScreens

(* A repository is added or removed: the lists are made anew and drawn.    *)
LEMMA ScreenEdits ==
  ASSUME TypeOK, StepsInv, CallInv, ListsInv, ListsInv', ScreenInv, NEW t \in Tuis, Edits(t),
         AddsRow(t) \/ RemovesRow(t)
  PROVE  ScreenInv'
<1>1. /\ lists' = [lists EXCEPT ![t].repos = mem'[t].repos] /\ Draws(t, sel[t])
      /\ view' = view /\ found' = found
      /\ \/ mode' = mode /\ mode[t] = "keys"
         \/ mode' = [mode EXCEPT ![t] = "keys"]
  BY DEF AddsRow, RemovesRow, Mode, Waits
<1>2. \A u \in Tuis \ {t} : steps'[u] = steps[u] /\ lists'[u] = lists[u]
  BY <1>1, PlanTui DEF Objects, ListsInv
<1>3. /\ sel[t] \in Int /\ mode' \in [Tuis -> Modes] /\ mode'[t] = "keys"
      /\ \A u \in Tuis \ {t} : mode'[u] = mode[u]
  BY <1>1 DEF ScreenInv, Typed, Modes
<1> QED BY <1>1, <1>2, <1>3, DrawnScreen DEF ScreenInv, Typed

LEMMA ScreenKey ==
  ASSUME TypeOK, StepsInv, CallInv, ListsInv, ListsInv', ScreenInv, NEW t \in Tuis, Key(t)
  PROVE  ScreenInv'
<1>1. CASE SwitchesView(t) \/ Moves(t) \/ StartsSearch(t) \/ Narrows(t)
           \/ Widens(t) \/ EndsSearch(t)
  <2>1. steps[t] = <<"menu">>
    BY <1>1 DEF SwitchesView, Moves, StartsSearch, Narrows, Widens, EndsSearch, Waits
  <2> QED BY <1>1, <2>1, ScreenDrawn
<1>2. CASE Prompts(t) \/ CancelsPrompt(t)
  BY <1>2, ScreenPrompts
<1>3. CASE Scans(t) \/ GetsRow(t)
  <2>1. Calls(t) /\ UNCHANGED ui /\ Waits(t, "keys")
    BY <1>3 DEF Scans, GetsRow, Runs
  <2>2. PICK c \in Clients : \A p \in Objects \ {c, t} : steps'[p] = steps[p]
    BY <2>1, PlanCalls
  <2>3. \A u \in Tuis \ {t} : steps'[u] = steps[u]
    BY <2>2, NamesAssumption DEF Objects
  <2> QED BY <2>1, <2>3, ScreenWorks
<1>4. CASE Untracks(t)
  <2>1. Edits(t) /\ UNCHANGED ui /\ Waits(t, "keys")
    BY <1>4, RowKeys DEF Untracks
  <2>2. \A u \in Tuis \ {t} : steps'[u] = steps[u]
    BY <2>1, PlanTui DEF Objects
  <2> QED BY <2>1, <2>2, ScreenWorks
<1>5. CASE AddsRow(t) \/ RemovesRow(t)
  <2>1. Edits(t)
    BY <1>5, RowKeys DEF AddsRow
  <2> QED BY <1>5, <2>1, ScreenEdits
<1>6. CASE Leaves(t)
  <2>1. Quits(t) /\ Resets(t)
    BY <1>6 DEF Leaves
  <2>2. steps'[t] = <<>> /\ \A u \in Tuis \ {t} : steps'[u] = steps[u]
    BY <2>1, PlanTui DEF Quits, TypeOK, Objects
  <2> QED BY <2>1, <2>2, ScreenResets DEF ListsInv
<1> QED BY <1>1, <1>2, <1>3, <1>4, <1>5, <1>6 DEF Key

LEMMA ScreenKilled ==
  ASSUME TypeOK, CallInv, ListsInv, ScreenInv, NEW p \in Objects, Killed(p),
         IF p \in Tuis THEN Resets(p) ELSE UNCHANGED ui
  PROVE  ScreenInv'
<1>1. \A o \in Objects : o # p /\ caller[o] # p => steps'[o] = steps[o]
  BY DEF Killed
<1>2. \A u \in Tuis : u \in Objects /\ caller[u] # p
  BY NamesAssumption DEF CallInv, Objects
<1>3. CASE p \in Tuis
  <2>1. steps'[p] = <<>> /\ \A u \in Tuis \ {p} : steps'[u] = steps[u]
    BY <1>1, <1>2 DEF Killed
  <2> QED BY <1>3, <2>1, ScreenResets DEF ListsInv
<1>4. CASE p \notin Tuis
  <2>1. UNCHANGED ui /\ \A u \in Tuis : steps'[u] = steps[u]
    BY <1>1, <1>2, <1>4
  <2>2. Rests
    BY <2>1 DEF Rests, Read
  <2> QED BY <2>1, <2>2, ScreenRests
<1> QED BY <1>3, <1>4

-----------------------------------------------------------------------------

TuiInv == TypeOK /\ StepsInv /\ CallInv /\ ListsInv /\ ScreenInv

LEMMA TuiStepInv ==
  ASSUME TuiInv, [TuiNext]_tvars PROVE TuiInv' /\ [Next]_vars
<1> USE DEF TuiInv
<1>1. ListsInv' /\ [Next]_vars
  <2>1. CASE UNCHANGED tvars
    <3>1. UNCHANGED vars /\ lists' = lists /\ steps' = steps /\ mem' = mem
      BY <2>1 DEF tvars, vars
    <3> QED BY <3>1, NoScreen
  <2>2. ASSUME NEW t \in Tuis, Reads(t) PROVE ListsInv' /\ [Next]_vars
    <3>1. t \in Objects /\ ObjectStep(t)
      BY <2>2 DEF Reads, ObjectStep, Objects
    <3> QED BY <2>2, <3>1, ListsReads DEF Next
  <2>3. ASSUME NEW p \in Objects, Killed(p), IF p \in Tuis THEN Resets(p) ELSE UNCHANGED ui
        PROVE  ListsInv' /\ [Next]_vars
    BY <2>3, ListsKilled DEF Next
  <2> QED BY <2>1, <2>2, <2>3, KeyStep, GoesStep DEF TuiNext
<1>2. TypeOK' /\ StepsInv' /\ CallInv'
  BY <1>1, TypeStep, PlanStep
<1>3. ScreenInv'
  <2>1. CASE UNCHANGED tvars
    <3>1. UNCHANGED ui /\ steps' = steps
      BY <2>1 DEF tvars, ui
    <3> QED BY <3>1, ScreenRests DEF Rests, Read
  <2>2. ASSUME NEW t \in Tuis, Key(t) PROVE ScreenInv'
    BY <1>1, <2>2, ScreenKey
  <2>3. ASSUME NEW p \in Objects, Killed(p), IF p \in Tuis THEN Resets(p) ELSE UNCHANGED ui
        PROVE  ScreenInv'
    BY <2>3, ScreenKilled
  <2>4. ASSUME Goes PROVE ScreenInv'
    BY <2>4, GoesStep, ScreenRests DEF Goes
  <2> QED BY <2>1, <2>2, <2>3, <2>4, ScreenReads DEF TuiNext
<1> QED BY <1>1, <1>2, <1>3

LEMMA TuiInitInv == TuiInit => TuiInv
<1> SUFFICES ASSUME TuiInit PROVE TuiInv
  OBVIOUS
<1>1. TypeOK /\ StepsInv /\ CallInv
  BY InitInv DEF TuiInit, Inv
<1>2. lists \in [Tuis -> Lists]
  BY EmptyTyped, ListsTyped DEF TuiInit, Fresh
<1>3. \A t \in Tuis : UpToDate(t)
  BY NotRunning DEF TuiInit, Init, Objects
<1>4. ScreenInv
  <2>1. Typed
    BY DEF TuiInit, Fresh, Typed, Views, Modes
  <2>2. ASSUME NEW t \in Tuis PROVE Screen(t)
    <3>1. steps[t] = <<>> /\ mode[t] = "keys"
      BY DEF TuiInit, Fresh, Init, Objects
    <3>2. Len(steps[t]) = 0
      BY <3>1
    <3> QED BY <3>1, <3>2 DEF Screen, Read
  <2> QED BY <2>1, <2>2 DEF ScreenInv
<1> QED BY <1>1, <1>2, <1>3, <1>4 DEF TuiInv, ListsInv

(* ScreenOK: while a TUI waits for a key, its lists are those of its       *)
(* database, and the key finds the row it works on: load_data and          *)
(* do_remove_repo make the lists anew whenever the database has changed,   *)
(* and clamp_sel runs whenever there are other rows.                       *)
THEOREM ScreenIsRight == TuiSpec => []ScreenOK
<1>1. ASSUME TuiInv, NEW t \in Tuis, steps[t] = <<"menu">>
      PROVE  /\ lists[t] = ListsOf(mem[t])
             /\ mode[t] = "search" => view[t] = "packages" /\ found[t] \subseteq lists[t].packages
             /\ mode[t] \in {"name", "url"} => view[t] = "repos"
             /\ sel[t] >= 0
             /\ Rows(t) # {} => Highlighted(t) # {}
  <2>1. lists[t] = ListsOf(mem[t])
    BY <1>1, AtMenu DEF TuiInv
  <2>2. Screen(t) /\ Read(t) /\ sel[t] \in Nat
    BY <1>1, ReadAtMenu DEF TuiInv, ScreenInv, Typed
  <2>3. Rows(t) \subseteq Names \cup Sources /\ IsFiniteSet(Rows(t)) /\ Size(t) \in Nat
    BY <1>1, RowsFinite DEF TuiInv, ScreenInv, Typed, ListsInv
  <2>4. ASSUME Rows(t) # {} PROVE Highlighted(t) # {}
    <3>1. Size(t) # 0
      BY <2>3, <2>4, FS_EmptySet DEF Size
    <3>2. sel[t] < Cardinality(Rows(t))
      BY <2>2, <3>1 DEF Screen, Size
    <3>3. \A x \in Rows(t) : Rank[x] \in Nat
      BY <2>3, RankAssumption
    <3>4. \A x, y \in Rows(t) : Rank[x] = Rank[y] => x = y
      BY <2>3, RankAssumption
    <3>5. \E x \in Rows(t) : Cardinality({y \in Rows(t) : Rank[y] < Rank[x]}) = sel[t]
      BY <2>2, <2>3, <3>2, <3>3, <3>4, RowOf
    <3> QED BY <3>5 DEF Highlighted
  <2> QED BY <2>1, <2>2, <2>4 DEF Screen
<1>2. TuiInv => ScreenOK
  BY <1>1 DEF ScreenOK
<1>3. TuiInit => TuiInv
  BY TuiInitInv
<1>4. TuiInv /\ [TuiNext]_tvars => TuiInv'
  BY TuiStepInv
<1> QED BY <1>2, <1>3, <1>4, PTL DEF TuiSpec

(* ImplementsClientDB: every key of every view is a step of ClientDB, or   *)
(* changes the screen only.                                                *)
THEOREM Implements == TuiSpec => ImplementsClientDB
<1>1. TuiInit => TuiInv /\ Init
  BY TuiInitInv DEF TuiInit
<1>2. TuiInv /\ [TuiNext]_tvars => TuiInv' /\ [Next]_vars
  BY TuiStepInv
<1> QED BY <1>1, <1>2, PTL DEF TuiSpec, Spec, ImplementsClientDB

=============================================================================
