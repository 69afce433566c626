--------------------------- MODULE ConsoleProofs ---------------------------
(***************************************************************************)
(* Proofs about Console: the form that two views share is never mistaken   *)
(* for another one, and so whatever keys are pressed, the steps of the     *)
(* server TUI are those of Registry.  What RegistryProofs proves about the *)
(* catalogue then holds of a server with the TUI in all its detail.        *)
(***************************************************************************)
EXTENDS Console, RegistryProofs, FiniteSetTheorems

(* The types the proof needs: those of ConsoleTypeOK but for the highlight. *)
Screens ==
  /\ view \in [Tuis -> Views]
  /\ mode \in [Tuis -> {"keys", "form", "confirm"}]
  /\ fields \in [Tuis -> {0, CreateFields, EditFields}]
  /\ edit \in [Tuis -> SUBSET Names]

(* What the proof is by: types, and FormOK. *)
ConsoleInv == Screens /\ FormOK

LEMMA ConsoleBegins == ASSUME ConsoleInit PROVE ConsoleInv
BY ProcsAssumption
DEF ConsoleInit, Init, Fresh, ConsoleInv, Screens, FormOK, Views,
    CreateFields, EditFields

-----------------------------------------------------------------------------
(* The refinement: every key is a step of Registry or none.                *)

(* The form is saved into the package whose entry filled it. *)
LEMMA SavesEdit ==
  ASSUME FormOK, Screens, NEW t \in Tuis, Saves(t) PROVE TuiEdit(t)
<1>1. pc[t] = "menu" /\ fields[t] = EditFields
  BY DEF Saves, Waits, Screens, CreateFields, EditFields
<1>2. form[t] = edit[t]
  BY <1>1 DEF FormOK
<1> QED BY <1>1, <1>2 DEF Saves, TuiEdit

(* A form is filled with an entry of the list, or emptied. *)
LEMMA FillsForm ==
  ASSUME NEW t \in Tuis, Selects(t) \/ StartsForm(t) \/ Deselects(t)
  PROVE  TuiSelects(t)
<1>1. CASE Selects(t)
  <2>1. PICK n \in Highlighted(t) : form' = [form EXCEPT ![t] = {n}]
    BY <1>1 DEF Selects
  <2>2. n \in Known(mem[t])
    BY DEF Highlighted, Row, Listed, Known
  <2> QED BY <1>1, <2>1, <2>2 DEF Selects, Waits, TuiSelects
<1>2. CASE StartsForm(t) \/ Deselects(t)
  <2>1. form' = [form EXCEPT ![t] = {}]
    BY <1>2 DEF StartsForm, Deselects, Forgets
  <2>2. pc[t] = "menu"
        /\ UNCHANGED <<json, dirs, mem, pc, kind, names, serves, tidy, fresh, unread>>
    BY <1>2 DEF StartsForm, Deselects, Waits
  <2> QED BY <2>1, <2>2 DEF TuiSelects
<1> QED BY <1>1, <1>2

(* Creating and removing are the commands of the TUI in Registry. *)
LEMMA BeginsCommand ==
  ASSUME Screens, NEW t \in Tuis, RemovesOne(t) \/ Creates(t)
  PROVE  TuiCommand(t)
<1>1. CASE RemovesOne(t)
  <2>1. Condemned(t) \in SUBSET Names
    BY DEF Condemned, Highlighted, Row, Listed, Screens
  <2> QED BY <1>1, <2>1 DEF RemovesOne, Waits, TuiCommand
<1>2. CASE Creates(t)
  <2>1. PICK n \in Names : Begins(t, mem[t], "present", {n})
    BY <1>2 DEF Creates
  <2> QED BY <1>2, <2>1 DEF Creates, Waits, TuiCommand
<1> QED BY <1>1, <1>2

(* A key is a step of its TUI. *)
LEMMA ConsoleSteps ==
  ASSUME FormOK, Screens, NEW t \in Tuis, Console(t)
  PROVE  Process(t) \/ UNCHANGED vars
<1>1. CASE SwitchesView(t) \/ Moves(t) \/ Resumes(t) \/ Escapes(t)
           \/ AsksConfirmation(t) \/ Cancels(t) \/ CreateIncomplete(t)
           \/ SaveRefused(t)
  BY <1>1 DEF SwitchesView, Moves, Resumes, Escapes, AsksConfirmation,
     Cancels, CreateIncomplete, SaveRefused
<1>2. CASE Refreshes(t) \/ RemovalFails(t) \/ CreateRefused(t) \/ Finishes(t)
  <2>1. TuiRefresh(t)
    BY <1>2 DEF Refreshes, RemovalFails, CreateRefused, Finishes, Reloads
  <2> QED BY <2>1 DEF Process
<1>3. CASE Selects(t) \/ StartsForm(t) \/ Deselects(t)
  BY <1>3, FillsForm DEF Process
<1>4. CASE RemovesOne(t) \/ Creates(t)
  BY <1>4, BeginsCommand DEF Process
<1>5. CASE Saves(t)
  BY <1>5, SavesEdit DEF Process
<1>6. CASE Leaves(t) \/ Works(t) \/ Ends(t) \/ (TuiStarts(t) /\ UNCHANGED ui)
  <2>1. Process(t)
    BY <1>6 DEF Leaves, Works, Ends, Process
  <2> QED BY <2>1
<1> QED BY <1>1, <1>2, <1>3, <1>4, <1>5, <1>6 DEF Console

LEMMA ConsoleRefines ==
  ASSUME FormOK, Screens, [ConsoleNext]_cvars PROVE [Next]_vars
<1>1. CASE UNCHANGED cvars
  BY <1>1 DEF cvars, vars
<1>2. CASE DaemonStarts
  BY <1>2 DEF Next
<1>3. ASSUME NEW p \in Procs \ Tuis, Operator(p) PROVE Next
  BY <1>3 DEF Operator, Next, Process
<1>4. ASSUME NEW t \in Tuis, Console(t) PROVE [Next]_vars
  BY <1>4, ConsoleSteps, ProcsAssumption DEF Next
<1> QED BY <1>1, <1>2, <1>3, <1>4 DEF ConsoleNext

-----------------------------------------------------------------------------
(* The form.  A step of one TUI leaves what others show and hold alone.    *)

(* FormOK is of each TUI on its own. *)
FormOf(t) ==
  /\ fields[t] = EditFields => edit[t] # {} /\ form[t] = edit[t]
  /\ fields[t] # EditFields => form[t] = {}
  /\ mode[t] # "keys" =>
       /\ pc[t] = "menu"
       /\ \/ view[t] = "create" /\ fields[t] = CreateFields
          \/ view[t] = "edit" /\ edit[t] # {} /\ fields[t] # 0

LEMMA OneForm ==
  ASSUME FormOK, NEW t \in Tuis, FormOf(t)',
         \A u \in Tuis \ {t} :
           /\ fields'[u] = fields[u] /\ edit'[u] = edit[u]
           /\ form'[u] = form[u] /\ mode'[u] = mode[u]
           /\ pc'[u] = pc[u] /\ view'[u] = view[u]
  PROVE  FormOK'
<1>1. ASSUME NEW u \in Tuis PROVE FormOf(u)'
  BY DEF FormOK, FormOf
<1> QED BY <1>1 DEF FormOK, FormOf

(* What a process that steps does to the forms and places: it keeps every  *)
(* form or, ending, empties its own.                                       *)
Kept(p) == form' = form /\ \E l : pc' = [pc EXCEPT ![p] = l]
Gone(p) == form' = [form EXCEPT ![p] = {}] /\ pc' = [pc EXCEPT ![p] = "off"]

LEMMA FormKept ==
  ASSUME NEW p,
         \/ Command(p) \/ Declines(p) \/ Presents(p) \/ PresentFails(p)
         \/ Attaches(p) \/ Removes(p) \/ SaveOpens(p) \/ SaveFails(p)
         \/ SaveWrites(p)
  PROVE  Kept(p) \/ (Gone(p) /\ p \notin Tuis)
<1>1. ASSUME NEW l, form' = form, Goto(p, l) PROVE Kept(p)
  BY <1>1 DEF Goto, Kept
<1>2. CASE Command(p)
  <2>1. PICK k \in Kinds : \E ns \in SUBSET Names : Begins(p, Load(Empty), k, ns)
    BY <1>2 DEF Command
  <2>2. PICK ns \in SUBSET Names : Begins(p, Load(Empty), k, ns)
    BY <2>1
  <2>3. form' = form /\ Goto(p, "asked")
    BY <2>2 DEF Begins
  <2> QED BY <2>3, <1>1
<1>3. ASSUME Exits(p) PROVE Gone(p)
  BY <1>3 DEF Exits, Over, Goto, Gone
<1>4. ASSUME Returns(p) PROVE Kept(p) \/ (Gone(p) /\ p \notin Tuis)
  <2>1. CASE p \in Tuis
    <3>1. form' = form /\ Goto(p, "refresh")
      BY <1>4, <2>1 DEF Returns, Over
    <3> QED BY <3>1, <1>1
  <2>2. CASE p \notin Tuis
    BY <1>3, <1>4, <2>2 DEF Returns
  <2> QED BY <2>1, <2>2
<1>5. CASE Declines(p) \/ PresentFails(p) \/ SaveFails(p) \/ SaveWrites(p)
  <2>1. Returns(p)
    BY <1>5 DEF Declines, PresentFails, SaveFails, SaveWrites
  <2> QED BY <2>1, <1>4
<1>6. CASE Presents(p)
  <2>1. form' = form /\ Goto(p, "save")
    BY <1>6 DEF Presents
  <2> QED BY <2>1, <1>1
<1>7. CASE SaveOpens(p)
  <2>1. form' = form /\ Goto(p, "write")
    BY <1>7 DEF SaveOpens
  <2> QED BY <2>1, <1>1
<1>8. CASE Attaches(p)
  <2>1. PICK n \in names[p] : \E m \in Manifests \cup {mem[p][n]} :
          IF dirs[n] = None
            THEN Returns(p) /\ UNCHANGED <<dirs, unread>>
            ELSE /\ dirs' = [dirs EXCEPT ![n] = m]
                 /\ mem' = [mem EXCEPT ![p][n] = Merged(@, m)]
                 /\ unread' = unread \ {n}
                 /\ Goto(p, "save")
                 /\ UNCHANGED <<kind, names, form>>
    BY <1>8 DEF Attaches
  <2>2. CASE dirs[n] = None
    BY <2>1, <2>2, <1>4
  <2>3. CASE dirs[n] # None
    <3>1. Goto(p, "save") /\ form' = form
      BY <2>1, <2>3
    <3> QED BY <3>1, <1>1
  <2> QED BY <2>2, <2>3
<1>9. CASE Removes(p)
  <2>1. form' = form
    BY <1>9 DEF Removes
  <2>2. PICK n \in names[p] : Goto(p, IF names[p] = {n} THEN "save" ELSE "remove")
    BY <1>9 DEF Removes
  <2> QED BY <2>1, <2>2, <1>1
<1> QED BY <1>2, <1>5, <1>6, <1>7, <1>8, <1>9

(* While a create or a removal runs the TUI is not at its menu. *)
LEMMA WorksKeeps ==
  ASSUME NEW t \in Tuis, Works(t) PROVE Kept(t) /\ pc[t] # "menu"
<1>1. pc[t] # "menu"
  BY DEF Works, Declines, Presents, PresentFails, Removes, SaveOpens,
     SaveFails, SaveWrites
<1>2. Kept(t)
  BY FormKept, ProcsAssumption DEF Works
<1> QED BY <1>1, <1>2

(* Every step of one TUI keeps the types of the screens. *)
LEMMA ScreenStep ==
  ASSUME Screens, [ConsoleNext]_cvars PROVE Screens'
<1> USE DEF Screens, Mode, ui, CreateFields, EditFields
<1>1. CASE UNCHANGED ui
  BY <1>1
<1>2. ASSUME NEW t \in Tuis, Console(t), ~UNCHANGED ui PROVE Screens'
  <2>1. CASE SwitchesView(t) \/ Moves(t) \/ Resumes(t) \/ Escapes(t)
             \/ AsksConfirmation(t) \/ Cancels(t) \/ CreateIncomplete(t)
             \/ SaveRefused(t)
    BY <2>1 DEF SwitchesView, Moves, Resumes, Escapes, AsksConfirmation,
       Cancels, CreateIncomplete, SaveRefused, Views
  <2>2. CASE Refreshes(t) \/ RemovalFails(t) \/ CreateRefused(t)
    BY <2>2 DEF Refreshes, RemovalFails, CreateRefused
  <2>3. CASE Finishes(t)
    BY <2>3 DEF Finishes, Forgets
  <2>4. CASE Selects(t)
    <3>1. PICK n \in Highlighted(t) : edit' = [edit EXCEPT ![t] = {n}]
      BY <2>4 DEF Selects
    <3>2. n \in Names
      BY DEF Highlighted, Row, Listed
    <3> QED BY <2>4, <3>1, <3>2 DEF Selects, Views
  <2>5. CASE StartsForm(t) \/ Deselects(t) \/ Creates(t) \/ Saves(t)
    BY <2>5 DEF StartsForm, Deselects, Forgets, Creates, Saves
  <2>6. CASE Leaves(t) \/ Ends(t)
    BY <2>6 DEF Leaves, Ends, Reset, Views
  <2>7. CASE RemovesOne(t) \/ Works(t) \/ (TuiStarts(t) /\ UNCHANGED ui)
    BY <1>2, <2>7 DEF RemovesOne, Works
  <2> QED BY <1>2, <2>1, <2>2, <2>3, <2>4, <2>5, <2>6, <2>7 DEF Console
<1> QED BY <1>1, <1>2 DEF ConsoleNext, Operator, cvars

(* A reload at the menu leaves forms and places as they are. *)
LEMMA ReloadKeeps ==
  ASSUME TypeOK, NEW t \in Tuis, pc[t] = "menu", Reloads(t)
  PROVE  UNCHANGED <<form, pc>>
<1>1. form' \in {form, [form EXCEPT ![t] = form[t]]} /\ pc' = [pc EXCEPT ![t] = "menu"]
  BY DEF Reloads, TuiRefresh, Goto
<1> QED BY <1>1, ProcsAssumption DEF TypeOK

(* FormOK is inductive, given the types. *)
LEMMA FormStep ==
  ASSUME TypeOK, ConsoleInv, [ConsoleNext]_cvars PROVE FormOK'
<1>0. /\ form \in [Procs -> SUBSET Names]
      /\ DOMAIN pc = Procs /\ Tuis \subseteq Procs
      /\ FormOK /\ Screens
  BY ProcsAssumption DEF TypeOK, ConsoleInv
<1>1. CASE UNCHANGED <<form, pc, view, mode, fields, edit>>
  BY <1>0, <1>1 DEF FormOK
<1>2. ASSUME NEW p \in Procs \ Tuis, Operator(p) PROVE FormOK'
  <2>1. UNCHANGED ui /\ (Kept(p) \/ Gone(p))
    <3>1. CASE Killed(p)
      BY <1>2, <3>1 DEF Operator, Killed, Exits, Over, Goto, Gone
    <3> QED BY <1>2, <3>1, FormKept DEF Operator
  <2>2. \A u \in Tuis : form'[u] = form[u] /\ pc'[u] = pc[u]
    BY <1>0, <2>1 DEF Kept, Gone
  <2> QED BY <1>0, <2>1, <2>2 DEF FormOK, ui
<1>3. ASSUME NEW t \in Tuis, Console(t) PROVE FormOK'
  <2>0. FormOf(t)
    BY <1>0 DEF FormOK, FormOf
  <2> USE <1>0, <2>0 DEF Screens, Waits, Mode, CreateFields, EditFields
  <2>1. CASE SwitchesView(t) \/ Moves(t) \/ Resumes(t) \/ Escapes(t)
             \/ AsksConfirmation(t) \/ Cancels(t) \/ CreateIncomplete(t)
             \/ SaveRefused(t)
    <3>1. UNCHANGED <<form, pc, fields, edit>>
      BY <2>1 DEF SwitchesView, Moves, Resumes, Escapes, AsksConfirmation,
         Cancels, CreateIncomplete, SaveRefused, vars
    <3>2. FormOf(t)'
      BY <2>1, <3>1 DEF SwitchesView, Moves, Resumes, Escapes,
         AsksConfirmation, Cancels, CreateIncomplete, SaveRefused, FormOf
    <3>3. \A u \in Tuis \ {t} : mode'[u] = mode[u] /\ view'[u] = view[u]
      BY <2>1 DEF SwitchesView, Moves, Resumes, Escapes, AsksConfirmation,
         Cancels, CreateIncomplete, SaveRefused
    <3> QED BY <3>1, <3>2, <3>3, OneForm
  <2>2. CASE Refreshes(t) \/ RemovalFails(t)
    BY <1>1, <2>2, ReloadKeeps DEF Refreshes, RemovalFails
  <2>3. CASE CreateRefused(t)
    <3>1. UNCHANGED <<form, pc, view, edit>>
      BY <2>3, ReloadKeeps DEF CreateRefused
    <3>2. mode' = [mode EXCEPT ![t] = "keys"] /\ fields' = [fields EXCEPT ![t] = 0]
      BY <2>3 DEF CreateRefused
    <3>3. fields[t] # EditFields
      BY <2>3 DEF CreateRefused, FormOf
    <3>4. FormOf(t)'
      BY <3>1, <3>2, <3>3 DEF FormOf
    <3> QED BY <3>1, <3>2, <3>4, OneForm
  <2>4. CASE Selects(t)
    <3>1. PICK n \in Highlighted(t) : /\ edit' = [edit EXCEPT ![t] = {n}]
                                      /\ form' = [form EXCEPT ![t] = {n}]
      BY <2>4 DEF Selects
    <3>2. /\ pc' = pc /\ pc[t] = "menu"
          /\ fields' = [fields EXCEPT ![t] = EditFields]
          /\ view' = [view EXCEPT ![t] = "edit"]
          /\ mode' = [mode EXCEPT ![t] = "form"]
      BY <2>4 DEF Selects
    <3>3. FormOf(t)'
      BY <3>1, <3>2 DEF FormOf
    <3> QED BY <3>1, <3>2, <3>3, OneForm
  <2>5. CASE StartsForm(t)
    <3>1. /\ pc' = pc /\ pc[t] = "menu" /\ view' = view /\ edit' = edit
          /\ view[t] = "create"
          /\ form' = [form EXCEPT ![t] = {}]
          /\ fields' = [fields EXCEPT ![t] = CreateFields]
          /\ mode' = [mode EXCEPT ![t] = "form"]
      BY <2>5 DEF StartsForm
    <3>2. FormOf(t)'
      BY <3>1 DEF FormOf
    <3> QED BY <3>1, <3>2, OneForm
  <2>6. CASE Deselects(t)
    <3>1. /\ pc' = pc /\ view' = view /\ mode' = mode /\ mode[t] = "keys"
          /\ form' = [form EXCEPT ![t] = {}]
          /\ fields' = [fields EXCEPT ![t] = 0]
          /\ edit' = [edit EXCEPT ![t] = {}]
      BY <2>6 DEF Deselects, Forgets
    <3>2. FormOf(t)'
      BY <3>1 DEF FormOf
    <3> QED BY <3>1, <3>2, OneForm
  <2>7. CASE RemovesOne(t) \/ Creates(t)
    <3>1. /\ form' = form /\ pc' = [pc EXCEPT ![t] = "asked"]
          /\ UNCHANGED <<view, fields, edit>>
          /\ mode' = [mode EXCEPT ![t] = "keys"]
      BY <2>7 DEF RemovesOne, Creates, Begins, Goto, ui
    <3>2. FormOf(t)'
      BY <3>1 DEF FormOf
    <3> QED BY <3>1, <3>2, OneForm
  <2>8. CASE Saves(t)
    <3>1. /\ UNCHANGED <<form, pc, view, fields, edit>>
          /\ mode' = [mode EXCEPT ![t] = "keys"]
      BY <2>8 DEF Saves
    <3>2. FormOf(t)'
      BY <3>1 DEF FormOf
    <3> QED BY <3>1, <3>2, OneForm
  <2>9. CASE Leaves(t) \/ Ends(t)
    <3>1. /\ form' = [form EXCEPT ![t] = {}] /\ pc' = [pc EXCEPT ![t] = "off"]
          /\ view' = [view EXCEPT ![t] = "other"]
          /\ mode' = [mode EXCEPT ![t] = "keys"]
          /\ fields' = [fields EXCEPT ![t] = 0]
          /\ edit' = [edit EXCEPT ![t] = {}]
      BY <2>9 DEF Leaves, Ends, TuiQuits, Killed, Exits, Over, Goto, Reset
    <3>2. FormOf(t)'
      BY <3>1 DEF FormOf
    <3> QED BY <3>1, <3>2, OneForm
  <2>10. CASE Works(t)
    <3>1. UNCHANGED ui /\ Kept(t) /\ mode[t] = "keys"
      BY <2>10, WorksKeeps DEF Works, FormOf
    <3>2. FormOf(t)'
      BY <3>1 DEF FormOf, Kept, ui
    <3> QED BY <3>1, <3>2, OneForm DEF Kept, ui
  <2>11. CASE TuiStarts(t) /\ UNCHANGED ui
    <3>1. form' = form /\ pc' = [pc EXCEPT ![t] = "menu"] /\ mode[t] = "keys"
      BY <2>11 DEF TuiStarts, Goto, FormOf
    <3>2. FormOf(t)'
      BY <2>11, <3>1 DEF FormOf, ui
    <3> QED BY <2>11, <3>1, <3>2, OneForm DEF ui
  <2>12. CASE Finishes(t)
    <3>1. /\ pc' = [pc EXCEPT ![t] = "menu"] /\ mode[t] = "keys"
          /\ UNCHANGED <<view, mode>>
      BY <2>12 DEF Finishes, Reloads, TuiRefresh, Goto, FormOf
    <3>2. \/ /\ fields' = [fields EXCEPT ![t] = 0]
             /\ form' = [form EXCEPT ![t] = {}]
             /\ edit' = edit
          \/ Forgets(t)
          \/ UNCHANGED <<form, fields, edit>>
      BY <2>12 DEF Finishes
    <3>3. FormOf(t)'
      BY <3>1, <3>2 DEF FormOf, Forgets
    <3> QED BY <3>1, <3>2, <3>3, OneForm DEF Forgets
  <2> QED BY <1>3, <2>1, <2>2, <2>3, <2>4, <2>5, <2>6, <2>7, <2>8, <2>9,
             <2>10, <2>11, <2>12 DEF Console
<1> QED BY <1>1, <1>2, <1>3 DEF ConsoleNext, DaemonStarts, ui, cvars

-----------------------------------------------------------------------------
(* The types, those of Registry among them, and the form.                  *)
ConsoleSafe == TypeOK /\ Accepted /\ ConsoleInv

LEMMA ConsoleSafety == ConsoleSpec => []ConsoleSafe
<1>1. ConsoleInit => ConsoleSafe
  BY ConsoleBegins, TypeInit DEF ConsoleInit, Init, Accepted, ConsoleSafe
<1>2. ConsoleSafe /\ [ConsoleNext]_cvars => ConsoleSafe'
  <2> SUFFICES ASSUME ConsoleSafe, [ConsoleNext]_cvars PROVE ConsoleSafe'
    OBVIOUS
  <2>1. [Next]_vars
    BY ConsoleRefines DEF ConsoleSafe, ConsoleInv
  <2> QED BY <2>1, TypeStep, AskedStep, ScreenStep, FormStep
          DEF ConsoleSafe, ConsoleInv
<1> QED BY <1>1, <1>2, PTL DEF ConsoleSpec

(* Whatever keys are pressed, in whatever view, the eight fields are those *)
(* of the package named above them, and a form that takes keys is shown.   *)
THEOREM OneFormAtATime == ConsoleSpec => []FormOK
<1>1. ConsoleSafe => FormOK
  BY DEF ConsoleSafe, ConsoleInv
<1> QED BY <1>1, ConsoleSafety, PTL

(* Each key of the server TUI is a step of Registry or changes nothing     *)
(* there, so an edit is only ever saved where it was read from.            *)
THEOREM KeysAreCommands == ConsoleSpec => ImplementsRegistry
<1>1. ConsoleInit => Init
  BY DEF ConsoleInit
<1>2. ConsoleSafe /\ [ConsoleNext]_cvars => [Next]_vars
  BY ConsoleRefines DEF ConsoleSafe, ConsoleInv
<1> QED BY <1>1, <1>2, ConsoleSafety, PTL DEF ConsoleSpec, Spec, ImplementsRegistry

-----------------------------------------------------------------------------
(* The highlighted row.  How long the list is matters, so lists have to be *)
(* finite: registry.json and the memories are, as they start empty and     *)
(* every command enters one package.                                       *)
Short(m) == IsFiniteSet(Listed(m))
FiniteInv ==
  /\ json # Torn => Short(json)
  /\ \A p \in Procs : Short(mem[p])

(* Entering, changing or taking out one package. *)
LEMMA ShortExcept ==
  ASSUME NEW m \in Entries, Short(m), NEW n, NEW i
  PROVE  Short([m EXCEPT ![n] = i])
<1>1. Listed([m EXCEPT ![n] = i]) \subseteq Listed(m) \cup {n}
  BY DEF Listed, Entries
<1> QED BY <1>1, FS_Singleton, FS_Union, FS_Subset DEF Short

LEMMA ShortEmpty == Short(Empty)
<1>1. Listed(Empty) = {}
  BY DEF Listed, Empty
<1> QED BY <1>1, FS_EmptySet DEF Short

LEMMA ShortLoad ==
  ASSUME FiniteInv, NEW m, Short(m) PROVE Short(Load(m))
<1>1. CASE json = Torn
  BY <1>1 DEF Load
<1>2. CASE json # Torn
  <2>1. Listed(Load(m)) \subseteq Listed(json) \cup Listed(m)
    BY <1>2 DEF Load, Listed
  <2> QED BY <1>2, <2>1, FS_Union, FS_Subset DEF FiniteInv, Short
<1> QED BY <1>1, <1>2

(* Every step keeps the lists finite. *)
LEMMA FiniteStep ==
  ASSUME TypeOK, FiniteInv, [Next]_vars PROVE FiniteInv'
<1> USE DEF TypeOK
<1>1. CASE UNCHANGED vars \/ DaemonStarts
  BY <1>1 DEF vars, DaemonStarts, FiniteInv, Short, Listed
<1>2. ASSUME NEW p \in Procs, Process(p) PROVE FiniteInv'
  <2>1. json' = json \/ json' \in {Torn, mem[p]}
    BY <1>2 DEF Process, Command, TuiStarts, TuiRefresh, TuiCommand,
       TuiSelects, TuiEdit, TuiQuits, Declines, Presents, PresentFails,
       Attaches, Removes, SaveOpens, SaveFails, SaveWrites, Killed, Begins
  <2>2. SUFFICES Short(mem'[p])
    <3>1. ASSUME NEW q \in Procs PROVE Short(mem'[q])
      BY <1>2, <2>2, OnlyItself DEF FiniteInv
    <3>2. json' # Torn => Short(json')
      BY <2>1 DEF FiniteInv
    <3> QED BY <3>1, <3>2 DEF FiniteInv, Short, Listed
  <2>3. /\ Short(mem[p]) /\ mem[p] \in Entries
        /\ Short(Empty) /\ Short(Load(Empty)) /\ Short(Load(mem[p]))
    BY ShortEmpty, ShortLoad DEF FiniteInv
  <2>4. CASE Exits(p) \/ Returns(p)
    BY <2>3, <2>4 DEF Exits, Returns, Over
  <2>5. CASE TuiQuits(p) \/ Declines(p) \/ PresentFails(p) \/ SaveFails(p)
             \/ SaveWrites(p) \/ Killed(p)
    BY <2>4, <2>5 DEF TuiQuits, Declines, PresentFails, SaveFails,
       SaveWrites, Killed
  <2>6. CASE Command(p) \/ TuiCommand(p) \/ TuiStarts(p) \/ TuiRefresh(p)
    <3>1. mem'[p] \in {mem[p], Load(Empty), Load(mem[p])}
      BY <2>6 DEF Command, TuiCommand, TuiStarts, TuiRefresh, Begins
    <3> QED BY <2>3, <3>1
  <2>7. CASE TuiSelects(p) \/ TuiEdit(p) \/ SaveOpens(p)
    BY <2>3, <2>7 DEF TuiSelects, TuiEdit, SaveOpens
  <2>8. CASE Presents(p) \/ Removes(p)
    <3>1. PICK n \in names[p], i \in {None, Plain} : mem'[p] = [mem[p] EXCEPT ![n] = i]
      BY <2>8 DEF Presents, Removes
    <3>2. Short([mem[p] EXCEPT ![n] = i])
      BY <2>3, ShortExcept
    <3> QED BY <3>1, <3>2
  <2>9. CASE Attaches(p)
    <3>1. PICK n \in names[p] : \E m \in Manifests \cup {mem[p][n]} :
            Returns(p) \/ mem' = [mem EXCEPT ![p][n] = Merged(@, m)]
      BY <2>9 DEF Attaches
    <3>2. PICK m \in Manifests \cup {mem[p][n]} :
            Returns(p) \/ mem'[p] = [mem[p] EXCEPT ![n] = Merged(@, m)]
      BY <3>1
    <3>3. Short([mem[p] EXCEPT ![n] = Merged(@, m)])
      BY <2>3, ShortExcept
    <3> QED BY <2>4, <3>2, <3>3
  <2> QED BY <1>2, <2>5, <2>6, <2>7, <2>8, <2>9 DEF Process
<1> QED BY <1>1, <1>2 DEF Next

LEMMA FiniteLists == Spec => []FiniteInv
<1>1. Init => FiniteInv
  BY ShortEmpty DEF Init, FiniteInv
<1>2. TypeOK /\ FiniteInv /\ [Next]_vars => FiniteInv'
  BY FiniteStep
<1> QED BY <1>1, <1>2, RegistryTypeCorrect, PTL DEF Spec

(* The sizes are numbers then, and what is clamped is on the list. *)
LEMMA SizeNat == ASSUME NEW m, Short(m) PROVE Size(m) \in Nat
BY FS_CardinalityType DEF Short, Size

LEMMA ClampedIn ==
  ASSUME NEW m, Short(m), NEW s \in Nat
  PROVE  Clamped(s, m) \in Nat /\ Clamped(s, m) <= Last(Size(m))
BY SizeNat DEF Clamped, Lesser, Last

(* sel_ is on the list of the Packages view, and 0 in a TUI that is off.   *)
SelOf(t) ==
  /\ sel[t] \in Nat
  /\ pc[t] = "off" => view[t] = "other"
  /\ pc[t] = "menu" /\ view[t] = "packages" => sel[t] <= Last(Size(mem[t]))
SelInv ==
  sel \in [Tuis -> Nat] /\ \A t \in Tuis : SelOf(t)


(* SelInv needs only what a step changes, and only of the TUI that steps.  *)
LEMMA SelOne ==
  ASSUME SelInv, NEW t \in Tuis, NEW s \in Nat, sel' = [sel EXCEPT ![t] = s],
         NEW v, view' = [view EXCEPT ![t] = v], DOMAIN view = Tuis, SelOf(t)',
         \A u \in Tuis \ {t} : pc'[u] = pc[u] /\ mem'[u] = mem[u]
  PROVE  SelInv'
<1>1. sel' \in [Tuis -> Nat]
  BY DEF SelInv
<1>2. ASSUME NEW u \in Tuis \ {t} PROVE SelOf(u)'
  BY DEF SelInv, SelOf, Size, Listed
<1> QED BY <1>1, <1>2 DEF SelInv

LEMMA SelStep ==
  ASSUME TypeOK, FiniteInv, FiniteInv', SelInv, Screens, FormOK,
         [ConsoleNext]_cvars
  PROVE  SelInv'
<1> USE ProcsAssumption
<1>1. ASSUME UNCHANGED <<view, sel, pc, mem>> PROVE SelInv'
  BY <1>1 DEF SelInv, SelOf, Size, Listed
<1>2. ASSUME NEW p \in Procs \ Tuis, Operator(p) PROVE SelInv'
  <2>1. Process(p) /\ UNCHANGED <<view, sel>>
    BY <1>2 DEF Operator, Process, ui
  <2>2. \A t \in Tuis : pc'[t] = pc[t] /\ mem'[t] = mem[t]
    BY <2>1, OnlyItself
  <2> QED BY <2>1, <2>2 DEF SelInv, SelOf, Size, Listed
<1>3. ASSUME NEW t \in Tuis, Console(t) PROVE SelInv'
  <2>0. /\ \A u \in Tuis \ {t} : pc'[u] = pc[u] /\ mem'[u] = mem[u]
        /\ sel \in [Tuis -> Nat] /\ SelOf(t) /\ sel[t] \in Nat
        /\ DOMAIN view = Tuis
        /\ Short(mem[t]) /\ Short(mem'[t])
        /\ Size(mem[t]) \in Nat /\ Size(mem'[t]) \in Nat
    <3>1. Process(t) \/ UNCHANGED vars
      BY <1>3, ConsoleSteps
    <3>2. \A u \in Tuis \ {t} : pc'[u] = pc[u] /\ mem'[u] = mem[u]
      BY <3>1, OnlyItself DEF vars
    <3> QED BY <3>2, SizeNat DEF SelInv, Screens, FiniteInv
  <2>1. CASE SwitchesView(t)
    <3>1. PICK v \in Views : view' = [view EXCEPT ![t] = v]
      BY <2>1 DEF SwitchesView
    <3>2. sel' = [sel EXCEPT ![t] = 0] /\ UNCHANGED <<pc, mem>> /\ pc[t] = "menu"
      BY <2>1 DEF SwitchesView, vars, Waits
    <3>3. SelOf(t)'
      BY <2>0, <3>2 DEF SelOf, Last
    <3> QED BY <2>0, <3>1, <3>2, <3>3, SelOne
  <2>2. CASE Moves(t)
    <3> DEFINE n == IF view[t] = "packages" THEN Size(mem[t]) ELSE 0
    <3>1. PICK s \in {Last(sel[t]),
                      IF sel[t] + 1 < n THEN sel[t] + 1 ELSE sel[t],
                      IF sel[t] > Page THEN sel[t] - Page ELSE 0,
                      Lesser(Last(n), sel[t] + Page),
                      0,
                      Last(n)} :
            sel' = [sel EXCEPT ![t] = s]
      BY <2>2 DEF Moves
    <3>2. UNCHANGED <<pc, mem, view>> /\ pc[t] = "menu"
      BY <2>2 DEF Moves, vars, Waits
    <3>3. n \in Nat
      BY <2>0
    <3>4. view[t] = "packages" => sel[t] <= Last(n)
      BY <2>0, <3>2 DEF SelOf
    <3>5. s \in Nat /\ (view[t] = "packages" => s <= Last(n))
      <4> HIDE DEF n
      <4> QED BY <2>0, <3>1, <3>3, <3>4, PageAssumption DEF Last, Lesser
    <3>6. SelOf(t)'
      BY <2>0, <3>1, <3>2, <3>5 DEF SelOf
    <3>7. view' = [view EXCEPT ![t] = view[t]]
      BY <2>0, <3>2 DEF Screens
    <3> HIDE DEF n
    <3> QED BY <2>0, <3>1, <3>5, <3>6, <3>7, SelOne
  <2>3. CASE Refreshes(t) \/ RemovalFails(t) \/ CreateRefused(t) \/ Finishes(t)
    <3>1. /\ sel' = [sel EXCEPT ![t] = Clamped(sel[t], mem'[t])]
          /\ pc' = [pc EXCEPT ![t] = "menu"] /\ view' = view
      BY <2>0, <2>3 DEF Refreshes, RemovalFails, CreateRefused, Finishes,
         Reloads, TuiRefresh, Goto
    <3>2. /\ Clamped(sel[t], mem'[t]) \in Nat
          /\ Clamped(sel[t], mem'[t]) <= Last(Size(mem'[t]))
      BY <2>0, ClampedIn
    <3>3. SelOf(t)'
      BY <2>0, <3>1, <3>2 DEF SelOf, TypeOK
    <3>4. view' = [view EXCEPT ![t] = view[t]]
      BY <2>0, <3>1 DEF Screens
    <3> QED BY <2>0, <3>1, <3>2, <3>3, <3>4, SelOne
  <2>4. CASE Selects(t)
    <3>1. /\ view' = [view EXCEPT ![t] = "edit"] /\ UNCHANGED <<sel, pc, mem>>
          /\ pc[t] = "menu"
      BY <2>4 DEF Selects, Waits
    <3>2. sel' = [sel EXCEPT ![t] = sel[t]] /\ SelOf(t)'
      BY <2>0, <3>1 DEF SelOf
    <3> QED BY <2>0, <3>1, <3>2, SelOne
  <2>5. CASE StartsForm(t) \/ Resumes(t) \/ Deselects(t) \/ Escapes(t)
             \/ AsksConfirmation(t) \/ Cancels(t) \/ CreateIncomplete(t)
             \/ Saves(t) \/ SaveRefused(t)
    BY <1>1, <2>5 DEF StartsForm, Resumes, Deselects, Escapes,
       AsksConfirmation, Cancels, CreateIncomplete, Saves, SaveRefused, vars
  <2>6. CASE RemovesOne(t) \/ Creates(t) \/ Works(t)
    <3>1. UNCHANGED <<view, sel>>
      BY <2>6 DEF RemovesOne, Creates, Works, ui
    <3>2. pc'[t] \notin {"off", "menu"}
      <4>1. CASE RemovesOne(t) \/ Creates(t)
        BY <4>1 DEF RemovesOne, Creates, Begins, Goto, TypeOK
      <4>2. ASSUME Returns(t) PROVE pc'[t] = "refresh"
        BY <4>2 DEF Returns, Over, Goto, TypeOK
      <4>3. CASE Works(t)
        BY <4>2, <4>3 DEF Works, Declines, Presents, PresentFails, Removes,
           SaveOpens, SaveFails, SaveWrites, Goto, TypeOK
      <4> QED BY <2>6, <4>1, <4>3
    <3>3. SelOf(t)' /\ sel' = [sel EXCEPT ![t] = sel[t]]
          /\ view' = [view EXCEPT ![t] = view[t]]
      BY <2>0, <3>1, <3>2 DEF SelOf, Screens
    <3> QED BY <2>0, <3>3, SelOne
  <2>7. CASE Leaves(t) \/ Ends(t)
    <3>1. /\ view' = [view EXCEPT ![t] = "other"] /\ sel' = [sel EXCEPT ![t] = 0]
          /\ pc' = [pc EXCEPT ![t] = "off"]
      BY <2>7 DEF Leaves, Ends, TuiQuits, Killed, Exits, Over, Goto, Reset
    <3>2. SelOf(t)'
      BY <2>0, <3>1 DEF SelOf, TypeOK
    <3> QED BY <2>0, <3>1, <3>2, SelOne
  <2>8. CASE TuiStarts(t) /\ UNCHANGED ui
    <3>1. pc[t] = "off" /\ view[t] = "other" /\ UNCHANGED <<view, sel>>
      BY <2>0, <2>8 DEF TuiStarts, SelOf, ui
    <3>2. SelOf(t)' /\ sel' = [sel EXCEPT ![t] = sel[t]]
          /\ view' = [view EXCEPT ![t] = view[t]]
      BY <2>0, <2>8, <3>1 DEF SelOf, Screens, TuiStarts, Goto, TypeOK
    <3> QED BY <2>0, <3>2, SelOne
  <2> QED BY <1>3, <2>1, <2>2, <2>3, <2>4, <2>5, <2>6, <2>7, <2>8 DEF Console
<1>4. CASE DaemonStarts /\ UNCHANGED ui
  BY <1>1, <1>4 DEF DaemonStarts, ui
<1>5. CASE UNCHANGED cvars
  BY <1>1, <1>5 DEF cvars
<1> QED BY <1>2, <1>3, <1>4, <1>5 DEF ConsoleNext

(* The row that is highlighted in the Packages view is on the list, or the *)
(* list is empty and the first one is: no key, create, removal or reload   *)
(* leaves sel_ behind the end.                                             *)
THEOREM HighlightOnList == ConsoleSpec => []SelInList
<1>1. ConsoleInit => SelInv
  BY ProcsAssumption DEF ConsoleInit, Init, Fresh, SelInv, SelOf
<1>2. ConsoleSafe /\ FiniteInv /\ FiniteInv' /\ SelInv /\ [ConsoleNext]_cvars
        => SelInv'
  BY SelStep DEF ConsoleSafe, ConsoleInv
<1>3. ConsoleSpec => []FiniteInv
  BY KeysAreCommands, FiniteLists, PTL DEF ImplementsRegistry
<1>4. SelInv => SelInList
  BY DEF SelInv, SelOf, SelInList
<1> QED BY <1>1, <1>2, <1>3, <1>4, ConsoleSafety, PTL DEF ConsoleSpec

(* The catalogue, then, stays whole under every sequence of keys.          *)
THEOREM ConsoleKeepsCatalogue ==
  ConsoleSpec => [](TidyAgrees /\ FreshDaemonServes /\ ManifestIsRegistered)
BY KeysAreCommands, TidyCatalogue, FreshDaemon, ManifestsRegistered, PTL
DEF ImplementsRegistry

(* The creates and removals of the TUI are whole, too. *)
THEOREM ConsoleCommandsAreWhole == ConsoleSpec => ImplementsPackageSet
BY KeysAreCommands, CommandsAreWhole DEF ImplementsRegistry

=============================================================================
