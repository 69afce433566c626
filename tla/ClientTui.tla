----------------------------- MODULE ClientTui -----------------------------
(***************************************************************************)
(* The client TUI, key by key, on top of ClientDB: which view is shown,    *)
(* which row is highlighted, what the four lists hold, and whether keys go *)
(* to the search or to the prompt for a repository.  What a key does to    *)
(* the database are actions of ClientDB; while one of them runs the TUI    *)
(* reads no key, and it draws the screen before it reads the next.         *)
(*                                                                         *)
(* What is typed is chosen when it is used.  The Log view is one without   *)
(* rows; ping changes nothing and is left out.                             *)
(***************************************************************************)
EXTENDS ClientDB, Integers

CONSTANTS
  Rank,    \* the order in which std::map keeps names
  Page     \* rows_ - 5, how far page up and page down go

ASSUME RankAssumption ==
  /\ Rank \in [Names \cup Sources -> Nat]
  /\ \A x, y \in Names \cup Sources : Rank[x] = Rank[y] => x = y
(* A name is read from a file or a frame, and those are bounded            *)
(* (network.cpp:196).                                                      *)
ASSUME FiniteAssumption == IsFiniteSet(Names) /\ IsFiniteSet(Sources)
ASSUME PageAssumption == Page \in Nat \ {0, 1}

VARIABLES
  view,     \* view_
  sel,      \* sel_
  mode,     \* "search" is searching_, "name" and "url" are the two prompts
  lists,    \* packages_, servers_, repos_, installed_
  found     \* filtered_

ui == <<view, sel, mode, lists, found>>
tvars == <<file, mem, steps, at, todo, arg, caller, offers, rounds, whole,
           seen, reached, scanner, did, view, sel, mode, lists, found>>

Views == {"packages", "servers", "repos", "installed", "log"}

(* load_data and do_remove_repo copy the maps. *)
ListsOf(m) ==
  [packages |-> {n \in Names : m.pkgs[n] # None}, servers |-> m.srvs,
   repos |-> m.repos, installed |-> m.inst, log |-> {}]

Fresh(v) == [t \in Tuis |-> v]

TuiInit ==
  /\ Init
  /\ view = Fresh("packages")
  /\ sel = Fresh(0)
  /\ mode = Fresh("keys")
  /\ lists = Fresh(ListsOf(Empty))
  /\ found = Fresh({})

(* The rows on the screen, and list_size. *)
Rows(t) == IF mode[t] = "search" THEN found[t] ELSE lists[t][view[t]]
Size(t) == Cardinality(Rows(t))

(* The row sel_ highlights, if there is one. *)
Highlighted(t) ==
  {x \in Rows(t) : Cardinality({y \in Rows(t) : Rank[y] < Rank[x]}) = sel[t]}

(* Mutant: what is drawn last is not clamped. *)
UnclampedDraws(t, s) == sel' = [sel EXCEPT ![t] = s]

(* clamp_sel, before the rows are drawn. *)
Draws(t, s) ==
  LET n == Size(t)' IN
  sel' = [sel EXCEPT ![t] =
            IF s < 0 \/ n = 0 THEN 0 ELSE IF s >= n THEN n - 1 ELSE s]

Waits(t, m) == steps[t] = <<"menu">> /\ mode[t] = m

Mode(t, m) == mode' = [mode EXCEPT ![t] = m]

-----------------------------------------------------------------------------
(* Keys that only change the screen.                                       *)

SwitchesView(t) ==
  /\ Waits(t, "keys")
  /\ \E v \in Views : view' = [view EXCEPT ![t] = v]
  /\ UNCHANGED <<vars, mode, lists, found>>
  /\ Draws(t, 0)

(* Page down leads before the first row of an empty list. *)
Moves(t) ==
  /\ Waits(t, "keys")
  /\ UNCHANGED <<vars, view, mode, lists, found>>
  /\ \E s \in {sel[t] - 1, sel[t] + 1, sel[t] - Page, sel[t] + Page, 0, Size(t) - 1} :
       Draws(t, IF s < Size(t) THEN s ELSE Size(t) - 1)

StartsSearch(t) ==
  /\ Waits(t, "keys")
  /\ view[t] = "packages"
  /\ Mode(t, "search")
  /\ found' = [found EXCEPT ![t] = lists[t].packages]
  /\ UNCHANGED <<vars, view, lists>>
  /\ Draws(t, sel[t])

(* A character more finds less, and the first row is highlighted ... *)
Narrows(t) ==
  /\ Waits(t, "search")
  /\ \E S \in SUBSET found[t] : found' = [found EXCEPT ![t] = S]
  /\ UNCHANGED <<vars, view, mode, lists>>
  /\ Draws(t, 0)

(* ... one less finds more, and the highlight stays where it is. *)
Widens(t) ==
  /\ Waits(t, "search")
  /\ \E S \in SUBSET lists[t].packages :
       found[t] \subseteq S /\ found' = [found EXCEPT ![t] = S]
  /\ UNCHANGED <<vars, view, mode, lists>>
  /\ Draws(t, sel[t])

(* Enter and ESC show all packages again, with sel_ as it was. *)
EndsSearch(t) ==
  /\ Waits(t, "search")
  /\ Mode(t, "keys")
  /\ UNCHANGED <<vars, view, lists, found>>
  /\ Draws(t, sel[t])

(* do_add_repo asks for a name, then for a URL; ESC ends either.           *)
Prompts(t) ==
  /\ \/ Waits(t, "keys") /\ view[t] = "repos" /\ Mode(t, "name")
     \/ Waits(t, "name") /\ Mode(t, "url")
  /\ UNCHANGED <<vars, view, sel, lists, found>>

(* ESC, or Enter on an empty name or URL. *)
CancelsPrompt(t) ==
  /\ \E m \in {"name", "url"} : Waits(t, m)
  /\ Mode(t, "keys")
  /\ UNCHANGED <<vars, view, sel, lists, found>>

-----------------------------------------------------------------------------
(* Keys that work on the database.                                         *)

(* A Client object runs command k on a. *)
Runs(t, k, a) ==
  /\ Waits(t, "keys")
  /\ Calls(t)
  /\ \E c \in Clients :
       caller[c] = None /\ caller'[c] = t /\ arg'[c] = a /\ steps'[c] = Life(k)
  /\ UNCHANGED ui

Scans(t) == Runs(t, "scan", None)

(* do_install_selected, do_download_selected *)
GetsRow(t) ==
  /\ view[t] = "packages"
  /\ \E n \in Highlighted(t), k \in {"install", "download"} : Runs(t, k, n)

(* prompt_done_ *)
AddsRow(t) ==
  /\ Waits(t, "url")
  /\ Edits(t)
  /\ \E r \in Repos : mem'[t] = [mem[t] EXCEPT !.repos = @ \cup {r}] /\ r \in did'
  /\ lists' = [lists EXCEPT ![t].repos = mem'[t].repos]
  /\ Mode(t, "keys")
  /\ UNCHANGED <<view, found>>
  /\ Draws(t, sel[t])

(* Mutant: repos_ is not read again. *)
RemovesRowOnly(t) ==
  /\ Waits(t, "keys")
  /\ view[t] = "repos"
  /\ Begins
  /\ \E r \in Highlighted(t) :
       /\ mem' = [mem EXCEPT ![t].repos = @ \ {r}]
       /\ did' = did \ {r}
  /\ steps' = [steps EXCEPT ![t] = <<"save", "menu">>]
  /\ UNCHANGED <<file, at, todo, arg, caller, offers, whole, seen, reached,
                 scanner, ui>>

(* do_remove_repo, which asks nothing. *)
RemovesRow(t) ==
  /\ Waits(t, "keys")
  /\ view[t] = "repos"
  /\ Begins
  /\ "removerepo" \in Picks
  /\ \E r \in Highlighted(t) :
       /\ mem' = [mem EXCEPT ![t].repos = @ \ {r}]
       /\ did' = did \ {r}
  /\ steps' = [steps EXCEPT ![t] = <<"save", "menu">>]
  /\ lists' = [lists EXCEPT ![t].repos = mem'[t].repos]
  /\ UNCHANGED <<file, at, todo, arg, caller, offers, whole, seen, reached,
                 scanner, view, mode, found>>
  /\ Draws(t, sel[t])

(* do_untrack_selected *)
Untracks(t) ==
  /\ Waits(t, "keys")
  /\ view[t] = "installed"
  /\ Begins
  /\ "untrack" \in Picks
  /\ \E n \in Highlighted(t) :
       /\ mem' = [mem EXCEPT ![t].inst = @ \ {n}]
       /\ did' = did \ {n}
  /\ steps' = [steps EXCEPT ![t] = <<"save", "load", "menu">>]
  /\ UNCHANGED <<file, at, todo, arg, caller, offers, whole, seen, reached,
                 scanner, ui>>

(* load_data ends: the lists are made anew, and sel_ is clamped. *)
Reads(t) ==
  /\ Load(t)
  /\ lists' = IF steps'[t] = <<"menu">>
                THEN [lists EXCEPT ![t] = ListsOf(mem'[t])] ELSE lists
  /\ UNCHANGED <<view, mode, found>>
  /\ IF steps'[t] = <<"menu">> THEN Draws(t, sel[t]) ELSE UNCHANGED sel

(* The object ends, and the lists with it. *)
Resets(t) ==
  /\ view' = [view EXCEPT ![t] = "packages"]
  /\ sel' = [sel EXCEPT ![t] = 0]
  /\ mode' = [mode EXCEPT ![t] = "keys"]
  /\ lists' = [lists EXCEPT ![t] = ListsOf(Empty)]
  /\ found' = [found EXCEPT ![t] = {}]

Leaves(t) == Waits(t, "keys") /\ Quits(t) /\ Resets(t)

Key(t) ==
  \/ SwitchesView(t) \/ Moves(t) \/ StartsSearch(t) \/ Narrows(t)
  \/ Widens(t) \/ EndsSearch(t) \/ Prompts(t) \/ CancelsPrompt(t)
  \/ Scans(t) \/ GetsRow(t) \/ AddsRow(t) \/ RemovesRow(t) \/ Untracks(t)
  \/ Leaves(t)

(* What goes on between two keys, in the TUI and elsewhere. *)
Goes ==
  /\ \/ \E t \in Tuis : Opens(t)
     \/ \E o \in Objects : SaveOpens(o) \/ SaveWrites(o) \/ Asked(o)
                           \/ ListsRepos(o) \/ FetchesIndex(o)
     \/ \E c \in Clients : Load(c) \/ ClientStep(c)
  /\ UNCHANGED ui

TuiNext ==
  \/ \E t \in Tuis : Key(t) \/ Reads(t)
  \/ \E p \in Objects : Killed(p) /\ IF p \in Tuis THEN Resets(p) ELSE UNCHANGED ui
  \/ Goes

TuiSpec == TuiInit /\ [][TuiNext]_tvars

-----------------------------------------------------------------------------
(* Properties. *)

(* When a key is read, the lists are those of the database it will work    *)
(* on, the search shows only packages of the list, the prompt stands in    *)
(* the Repos view, and the highlighted row exists if there is any: ping,   *)
(* untrack and the removal of a repository take the row at sel_ without a  *)
(* look at its sign (tui_app.cpp:602, 857, 900).                           *)
ScreenOK == \A t \in Tuis :
  steps[t] = <<"menu">> =>
    /\ lists[t] = ListsOf(mem[t])
    /\ mode[t] = "search" => view[t] = "packages" /\ found[t] \subseteq lists[t].packages
    /\ mode[t] \in {"name", "url"} => view[t] = "repos"
    /\ sel[t] >= 0
    /\ Rows(t) # {} => Highlighted(t) # {}

(* Whatever keys are pressed, the files and the databases in memory change *)
(* as in ClientDB: what is installed has a row, what is removed or         *)
(* untracked was there.                                                    *)
ImplementsClientDB == Spec

=============================================================================
