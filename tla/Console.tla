------------------------------ MODULE Console ------------------------------
(***************************************************************************)
(* The server TUI, key by key, on top of Registry: which view is shown,    *)
(* which row is highlighted, whether keys go to a form or to its           *)
(* confirmation, and what the one vector of form fields holds, which the   *)
(* Create and the Edit view share.  A key is handled to its end before the *)
(* next one is read; what it does to the registry are actions of Registry. *)
(*                                                                         *)
(* What is typed into the fields is chosen when it is used; where the      *)
(* cursor is in the form is left out: Enter moves on or, on the last       *)
(* field, asks for the confirmation.  Dashboard and Log are one view.      *)
(***************************************************************************)
EXTENDS Registry

CONSTANTS
  Rank,    \* the order in which std::map keeps the packages
  Page     \* rows_ - 5, how far page up and page down go

ASSUME RankAssumption ==
  /\ Rank \in [Names -> Nat]
  /\ \A n, k \in Names : Rank[n] = Rank[k] => n = k
ASSUME PageAssumption == Page \in Nat

VARIABLES
  view,     \* view_ of each TUI
  sel,      \* sel_
  mode,     \* "form" is in_form_, "confirm" is form_confirm_
  fields,   \* how many fields form_fields_ has
  edit      \* edit_pkg_name_, as a set of at most one name

ui == <<view, sel, mode, fields, edit>>
cvars == <<json, dirs, mem, pc, kind, names, form, serves, tidy, fresh, unread,
           view, sel, mode, fields, edit>>

Views == {"other", "packages", "create", "edit"}
CreateFields == 2
EditFields == 8

Fresh(v) == [t \in Tuis |-> v]

ConsoleInit ==
  /\ Init
  /\ view = Fresh("other")
  /\ sel = Fresh(0)
  /\ mode = Fresh("keys")
  /\ fields = Fresh(0)
  /\ edit = Fresh({})

(* packages_ is what the registry held at the last refresh; the registry   *)
(* only changes together with one.                                         *)
Listed(m) == {n \in Names : m[n] # None}
Size(m) == Cardinality(Listed(m))

(* packages_[i], and nothing if the list is not as long. *)
Row(m, i) ==
  {n \in Listed(m) : Cardinality({k \in Listed(m) : Rank[k] < Rank[n]}) = i}

Last(n) == IF n > 0 THEN n - 1 ELSE 0

Lesser(a, b) == IF a < b THEN a ELSE b

(* Mutant: the selection is not clamped. *)
Unclamped(s, m) == s

(* refresh_packages clamps the selection. *)
Clamped(s, m) == Lesser(s, Last(Size(m)))

Waits(t, m) == pc[t] = "menu" /\ mode[t] = m

Mode(t, m) == mode' = [mode EXCEPT ![t] = m]

-----------------------------------------------------------------------------
(* Keys outside a form: handle_key.                                        *)

(* Tab, arrows and digits. *)
SwitchesView(t) ==
  /\ Waits(t, "keys")
  /\ \E v \in Views : view' = [view EXCEPT ![t] = v]
  /\ sel' = [sel EXCEPT ![t] = 0]
  /\ UNCHANGED <<vars, mode, fields, edit>>

Moves(t) ==
  /\ Waits(t, "keys")
  /\ \E s \in LET n == IF view[t] = "packages" THEN Size(mem[t]) ELSE 0
              IN  {Last(sel[t]),
                   IF sel[t] + 1 < n THEN sel[t] + 1 ELSE sel[t],
                   IF sel[t] > Page THEN sel[t] - Page ELSE 0,
                   Lesser(Last(n), sel[t] + Page),
                   0,
                   Last(n)} :
       sel' = [sel EXCEPT ![t] = s]
  /\ UNCHANGED <<vars, view, mode, fields, edit>>

Reloads(t) ==
  /\ TuiRefresh(t)
  /\ sel' = [sel EXCEPT ![t] = Clamped(@, mem'[t])]

Refreshes(t) ==
  /\ Waits(t, "keys")
  /\ Reloads(t)
  /\ UNCHANGED <<view, mode, fields, edit>>

Highlighted(t) == IF view[t] = "packages" THEN Row(mem[t], sel[t]) ELSE {}

(* select_package_for_edit, which also enters the form. *)
Selects(t) ==
  /\ Waits(t, "keys")
  /\ \E n \in Highlighted(t) :
       /\ edit' = [edit EXCEPT ![t] = {n}]
       /\ form' = [form EXCEPT ![t] = {n}]
  /\ fields' = [fields EXCEPT ![t] = EditFields]
  /\ view' = [view EXCEPT ![t] = "edit"]
  /\ Mode(t, "form")
  /\ UNCHANGED <<sel, json, dirs, mem, pc, kind, names, serves, tidy, fresh, unread>>

(* What action_remove_package is about: the package of the Edit view or    *)
(* the highlighted row, and nothing while no package is listed.            *)
Condemned(t) ==
  IF view[t] = "edit" /\ Listed(mem[t]) # {} THEN edit[t] ELSE Highlighted(t)

(* The removal is confirmed on the restored terminal ... *)
RemovesOne(t) ==
  /\ Waits(t, "keys")
  /\ "remove" \in Kinds
  /\ Begins(t, mem[t], "remove", Condemned(t))
  /\ UNCHANGED <<tidy, ui>>

(* ... and refused when the registry does not know the package any more.   *)
RemovalFails(t) ==
  /\ Waits(t, "keys")
  /\ \E n \in Condemned(t) : mem[t][n] = None
  /\ Reloads(t)
  /\ UNCHANGED <<view, mode, fields, edit>>

(* Mutant: the fields of the package being edited stay. *)
StartsFormOver(t) ==
  /\ Waits(t, "keys")
  /\ view[t] = "create"
  /\ Mode(t, "form")
  /\ fields' = [fields EXCEPT ![t] = IF @ = 0 THEN CreateFields ELSE @]
  /\ UNCHANGED <<vars, view, sel, edit>>

(* f and F: the fields of a file or a folder replace whatever there was.   *)
StartsForm(t) ==
  /\ Waits(t, "keys")
  /\ view[t] = "create"
  /\ Mode(t, "form")
  /\ fields' = [fields EXCEPT ![t] = CreateFields]
  /\ form' = [form EXCEPT ![t] = {}]
  /\ UNCHANGED <<view, sel, edit, json, dirs, mem, pc, kind, names, serves,
                 tidy, fresh, unread>>

(* Any printable key in the Edit view goes back to the form; without       *)
(* fields handle_key_form leaves it again.                                 *)
Resumes(t) ==
  /\ Waits(t, "keys")
  /\ view[t] = "edit" /\ edit[t] # {} /\ fields[t] # 0
  /\ Mode(t, "form")
  /\ UNCHANGED <<vars, view, sel, fields, edit>>

Forgets(t) ==
  /\ edit' = [edit EXCEPT ![t] = {}]
  /\ fields' = [fields EXCEPT ![t] = 0]
  /\ form' = [form EXCEPT ![t] = {}]

(* ESC in the Edit view. *)
Deselects(t) ==
  /\ Waits(t, "keys")
  /\ view[t] = "edit" /\ edit[t] # {}
  /\ Forgets(t)
  /\ UNCHANGED <<view, sel, mode, json, dirs, mem, pc, kind, names, serves,
                 tidy, fresh, unread>>

Reset(t) ==
  /\ view' = [view EXCEPT ![t] = "other"]
  /\ sel' = [sel EXCEPT ![t] = 0]
  /\ mode' = [mode EXCEPT ![t] = "keys"]
  /\ fields' = [fields EXCEPT ![t] = 0]
  /\ edit' = [edit EXCEPT ![t] = {}]

Leaves(t) == Waits(t, "keys") /\ TuiQuits(t) /\ Reset(t)

-----------------------------------------------------------------------------
(* Keys in a form and its confirmation: handle_key_form, handle_key.       *)

Escapes(t) ==
  /\ Waits(t, "form")
  /\ Mode(t, "keys")
  /\ UNCHANGED <<vars, view, sel, fields, edit>>

(* Ctrl+S, or Enter on the last field. *)
AsksConfirmation(t) ==
  /\ Waits(t, "form")
  /\ Mode(t, "confirm")
  /\ UNCHANGED <<vars, view, sel, fields, edit>>

Cancels(t) ==
  /\ Waits(t, "confirm")
  /\ Mode(t, "keys")
  /\ UNCHANGED <<vars, view, sel, fields, edit>>

(* action_execute_create: a path or a name is missing, the form goes on.   *)
CreateIncomplete(t) ==
  /\ Waits(t, "confirm")
  /\ view[t] = "create"
  /\ Mode(t, "form")
  /\ UNCHANGED <<vars, view, sel, fields, edit>>

Creates(t) ==
  /\ Waits(t, "confirm")
  /\ view[t] = "create"
  /\ "present" \in Kinds
  /\ \E n \in Names : Begins(t, mem[t], "present", {n})
  /\ Mode(t, "keys")
  /\ UNCHANGED <<tidy, view, sel, fields, edit>>

(* The package exists already. *)
CreateRefused(t) ==
  /\ Waits(t, "confirm")
  /\ view[t] = "create"
  /\ \E n \in Names : mem[t][n] # None
  /\ Reloads(t)
  /\ Mode(t, "keys")
  /\ fields' = [fields EXCEPT ![t] = 0]
  /\ UNCHANGED <<view, edit>>

(* Mutant: the number of fields is not looked at. *)
SavesAnyForm(t) ==
  /\ Waits(t, "confirm")
  /\ view[t] = "edit"
  /\ "attach" \in Kinds
  /\ \E n \in edit[t], m \in Forms :
       /\ dirs' = [dirs EXCEPT ![n] = m]
       /\ tidy' = (tidy /\ mem[t][n] # None)
       /\ unread' = unread \cup {n}
  /\ fresh' = FALSE
  /\ Mode(t, "keys")
  /\ UNCHANGED <<json, mem, pc, kind, names, form, serves, view, sel, fields, edit>>

(* action_save_edit; see TuiEdit. *)
Saves(t) ==
  /\ Waits(t, "confirm")
  /\ view[t] = "edit"
  /\ fields[t] >= EditFields
  /\ "attach" \in Kinds
  /\ \E n \in edit[t], m \in Forms :
       /\ dirs' = [dirs EXCEPT ![n] = m]
       /\ tidy' = (tidy /\ mem[t][n] # None)
       /\ unread' = unread \cup {n}
  /\ fresh' = FALSE
  /\ Mode(t, "keys")
  /\ UNCHANGED <<json, mem, pc, kind, names, form, serves, view, sel, fields, edit>>

(* "form incomplete": the fields are those of the Create view. *)
SaveRefused(t) ==
  /\ Waits(t, "confirm")
  /\ view[t] = "edit"
  /\ fields[t] < EditFields
  /\ Mode(t, "keys")
  /\ UNCHANGED <<vars, view, sel, fields, edit>>

-----------------------------------------------------------------------------
(* A create or a removal runs, the TUI handles no key, ...                 *)
Works(t) ==
  /\ \/ kind[t] = "present" /\ Declines(t)
     \/ Presents(t)
     \/ PresentFails(t)
     \/ Removes(t)
     \/ SaveOpens(t)
     \/ SaveFails(t)
     \/ SaveWrites(t)
  /\ UNCHANGED ui

(* ... until it is over: a create empties the fields, a removal in the     *)
(* Edit view deselects, one in the Packages view does not.                 *)
Finishes(t) ==
  /\ pc[t] = "refresh"
  /\ Reloads(t)
  /\ \/ /\ view[t] = "create"
        /\ fields' = [fields EXCEPT ![t] = 0]
        /\ form' = [form EXCEPT ![t] = {}]
        /\ UNCHANGED edit
     \/ view[t] = "edit" /\ Forgets(t)
     \/ view[t] \notin {"create", "edit"} /\ UNCHANGED <<form, fields, edit>>
  /\ UNCHANGED <<view, mode>>

Ends(t) == Killed(t) /\ Reset(t)

Console(t) ==
  \/ SwitchesView(t) \/ Moves(t) \/ Refreshes(t) \/ Selects(t)
  \/ RemovesOne(t) \/ RemovalFails(t) \/ StartsForm(t) \/ Resumes(t)
  \/ Deselects(t) \/ Leaves(t) \/ Escapes(t) \/ AsksConfirmation(t)
  \/ Cancels(t) \/ CreateIncomplete(t) \/ Creates(t) \/ CreateRefused(t)
  \/ Saves(t) \/ SaveRefused(t) \/ Works(t) \/ Finishes(t) \/ Ends(t)
  \/ TuiStarts(t) /\ UNCHANGED ui

(* The commands of dlr_server and the daemon know no screen. *)
Operator(p) ==
  /\ \/ Command(p) \/ Declines(p) \/ Presents(p) \/ PresentFails(p)
     \/ Attaches(p) \/ Removes(p) \/ SaveOpens(p) \/ SaveFails(p)
     \/ SaveWrites(p) \/ Killed(p)
  /\ UNCHANGED ui

ConsoleNext ==
  \/ DaemonStarts /\ UNCHANGED ui
  \/ \E t \in Tuis : Console(t)
  \/ \E p \in Procs \ Tuis : Operator(p)

ConsoleSpec == ConsoleInit /\ [][ConsoleNext]_cvars

-----------------------------------------------------------------------------
(* Properties. *)

(* The types of the screen's variables. *)
ConsoleTypeOK ==
  /\ view \in [Tuis -> Views]
  /\ sel \in [Tuis -> Nat]
  /\ mode \in [Tuis -> {"keys", "form", "confirm"}]
  /\ fields \in [Tuis -> {0, CreateFields, EditFields}]
  /\ edit \in [Tuis -> SUBSET Names]

(* Two views share the fields: the eight fields of the editor are always   *)
(* those of the package named above them, whatever was created, removed or *)
(* deselected in between; a form that takes keys or waits for its          *)
(* confirmation is on the screen, and in the Create view it is the one for *)
(* a create.  The only guard against saving the fields of a create is      *)
(* their number (server_tui.cpp:1087).                                     *)
FormOK == \A t \in Tuis :
  /\ fields[t] = EditFields => edit[t] # {} /\ form[t] = edit[t]
  /\ fields[t] # EditFields => form[t] = {}
  /\ mode[t] # "keys" =>
       /\ pc[t] = "menu"
       /\ \/ view[t] = "create" /\ fields[t] = CreateFields
          \/ view[t] = "edit" /\ edit[t] # {} /\ fields[t] # 0

(* The highlighted row exists: packages_[sel_] (server_tui.cpp:1052) never *)
(* reads behind the list, though every removal and every reload changes    *)
(* its length.                                                             *)
SelInList == \A t \in Tuis :
  pc[t] = "menu" /\ view[t] = "packages" => sel[t] <= Last(Size(mem[t]))

(* Whatever keys are pressed, the registry and the directories change as   *)
(* in Registry; in particular a form is saved only into the package whose  *)
(* entry filled it.                                                        *)
ImplementsRegistry == Spec

=============================================================================
