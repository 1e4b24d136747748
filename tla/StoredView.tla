------------------------------- MODULE StoredView -------------------------------
(***************************************************************************)
(* The tab of a stored session: StoredSessionController reads pages of the *)
(* frames that pass the filters in a pool of two threads, its integration  *)
(* shows them, and StoredSearchNavigator goes to a frame that a search or  *)
(* the evidence of an analysis points to, over the same controller.        *)
(*                                                                         *)
(* Everything but the tasks runs in the GUI thread: its state is one       *)
(* record, and a slot of the code is one step.  A frame is its row; a set  *)
(* of filters is the set of rows that it lets through.                     *)
(***************************************************************************)
EXTENDS Naturals, Sequences, FiniteSets

CONSTANTS
    Frames,         \* frames of the session
    PageSize,       \* page_size
    Presets,        \* what the presets of the project may let through
    Navigators,     \* the search window and the evidence of analyses
    Cancellable,    \* those whose request ends with a window: cancel_widget
    MaxInputs,      \* bound: clicks of the operator
    MaxEdits,       \* bound: changes of the presets
    MaxFailures     \* bound: tasks that raise

Rows == 0 .. Frames - 1
All == Rows

ASSUME StoredAssumption ==
    /\ Frames \in Nat /\ PageSize \in Nat \ {0}
    /\ Cancellable \subseteq Navigators
    /\ Presets \subseteq SUBSET Rows /\ All \in Presets
    /\ MaxInputs \in Nat /\ MaxEdits \in Nat /\ MaxFailures \in Nat

VARIABLES
    presets,        \* what the presets in the project's database let through
    gui,            \* the controller, its integration, the table, the navigators
    loads,          \* _futures: pages being read, or read
    locates,        \* _LocateTask: rows being located, or posted to the GUI
    inputs, edits, failures

bounds == <<inputs, edits, failures>>
vars == <<presets, gui, loads, locates, bounds>>

-----------------------------------------------------------------------------
(* Pages.                                                                   *)

Min2(a, b) == IF a < b THEN a ELSE b
Less(a, b) == IF a > b THEN a - b ELSE 0

PageOf(index) == (index \div PageSize) * PageSize
LastPage(visible) == IF visible = 0 THEN 0 ELSE PageOf(visible - 1)

(* The rows a set of filters lets through, in order.                        *)
Through(set) ==
    CHOOSE s \in [1 .. Cardinality(set) -> set] :
        \A i, j \in DOMAIN s : i < j => s[i] < s[j]

(* load_filtered_session_page: the page asked for, or the last one.         *)
Page(set, start) ==
    LET visible == Through(set)
        from == Min2(start, LastPage(Len(visible)))
    IN [start |-> from, visible |-> Len(visible), of |-> set,
        rows |-> SubSeq(visible, from + 1, Min2(from + PageSize, Len(visible)))]
NoPage == [start |-> 0, visible |-> 0, of |-> All, rows |-> <<>>]

(* locate_stored_search_row: how many rows before this one are let through. *)
Place(set, row) == Cardinality({r \in set : r < row})

-----------------------------------------------------------------------------

Resting == [generation |-> 0, pending |-> 0, row |-> 0, request |-> "none"]
NoSelection == [row |-> Frames, place |-> 0, clean |-> TRUE]

Load(g, start) == [generation |-> g.generation, set |-> g.active, start |-> start, state |-> "running"]

Init ==
    /\ presets \in Presets
    /\ gui = [generation |-> 1, start |-> 0, loading |-> TRUE, error |-> FALSE,
              page |-> NoPage, opened |-> FALSE, enabled |-> FALSE,
              available |-> presets, active |-> All, rows |-> <<>>, rendered |-> 0,
              selection |-> NoSelection, closed |-> FALSE,
              nav |-> [n \in Navigators |-> Resting]]
    /\ loads = {Load(gui, 0)} /\ locates = {}
    /\ inputs = 0 /\ edits = 0 /\ failures = 0

(* The functions below take what a slot changes of the program as a record  *)
(* [gui, loads, locates], since one slot may call several of them.          *)
State == [gui |-> gui, loads |-> loads, locates |-> locates]
Becomes(s) == gui' = s.gui /\ loads' = s.loads /\ locates' = s.locates

(* _submit                                                                  *)
Submit(s, start) ==
    LET g == [s.gui EXCEPT !.generation = @ + 1, !.start = start, !.loading = TRUE,
                           !.error = FALSE]
    IN [s EXCEPT !.gui = g, !.loads = @ \cup {Load(g, start)}]

(* request_page: nothing when the page asked for is the one there is.       *)
IsThere(g, start) == g.opened /\ start = g.start /\ ~g.loading
RequestPage(s, start) == IF IsThere(s.gui, start) THEN s ELSE Submit(s, start)

(* _apply_stored_session_state: a page is shown once.                       *)
Show(g) ==
    IF g.loading \/ g.generation = g.rendered THEN g
    ELSE IF g.error THEN [g EXCEPT !.rendered = g.generation]
    ELSE [g EXCEPT !.rendered = g.generation, !.rows = g.page.rows,
                   !.selection = NoSelection]

Input == ~gui.closed /\ inputs < MaxInputs /\ inputs' = inputs + 1 /\ UNCHANGED <<presets, edits, failures>>
Timer == ~gui.closed /\ UNCHANGED <<presets, bounds>>

-----------------------------------------------------------------------------
(* The pool: two threads take the loads in turn.                            *)

Running == {l \in loads : l.state = "running"}
InHand == {l \in Running : Cardinality({k \in Running : k.generation < l.generation}) < 2}

EndLoad ==
    \E l \in InHand :
        /\ \/ loads' = (loads \ {l}) \cup {[l EXCEPT !.state = "done"]} /\ UNCHANGED failures
           \/ /\ failures < MaxFailures /\ failures' = failures + 1
              /\ loads' = (loads \ {l}) \cup {[l EXCEPT !.state = "failed"]}
        /\ UNCHANGED <<presets, gui, locates, inputs, edits>>

Current(l) == l.generation = gui.generation

(* Slip: the newest load that has ended is taken for the current one.       *)
AnyEnded ==
    {l \in loads : l.state # "running" /\ \A k \in loads : k.generation <= l.generation
                                                              \/ k.state = "running"}

EndedLoad == {l \in loads : l.state # "running" /\ Current(l)}

Unended == {l \in loads : l.state = "running"}

(* Slip: a load that raised is dropped like one that is out of date.        *)
PollPages ==
    /\ Timer /\ \E l \in EndedLoad :
        LET page == Page(l.set, l.start)
        IN gui' = IF l.state = "failed" THEN gui
                  ELSE Show([gui EXCEPT !.loading = FALSE, !.error = FALSE, !.page = page,
                                        !.opened = TRUE, !.start = page.start])
    /\ loads' = Unended
    /\ UNCHANGED locates

(* poll, every 25 ms: loads that are out of date are dropped, the current   *)
(* one is shown.                                                            *)
Poll ==
    /\ Timer /\ \E l \in EndedLoad :
        LET page == Page(l.set, l.start)
            g == IF l.state = "failed"
                    THEN [gui EXCEPT !.loading = FALSE, !.error = TRUE]
                    ELSE [gui EXCEPT !.loading = FALSE, !.error = FALSE, !.page = page,
                                     !.opened = TRUE, !.start = page.start]
        IN gui' = Show(g)
    /\ loads' = Unended
    /\ UNCHANGED locates

PollStale ==
    /\ Timer /\ EndedLoad = {} /\ loads # Unended
    /\ loads' = Unended
    /\ UNCHANGED <<gui, locates>>

-----------------------------------------------------------------------------
(* Filters and pages.                                                       *)

EditPresets ==
    /\ ~gui.closed /\ edits < MaxEdits /\ edits' = edits + 1
    /\ presets' \in Presets \ {presets}
    /\ UNCHANGED <<gui, loads, locates, inputs, failures>>

(* set_filters_enabled                                                      *)
ToggleFilters ==
    /\ Input
    /\ LET on == ~gui.enabled
           g == [gui EXCEPT !.enabled = on, !.active = IF on THEN gui.available ELSE All]
       IN Becomes(Submit([State EXCEPT !.gui = g], 0))

(* reload_filters_if_changed, every 500 ms.                                 *)
ReloadFilters ==
    /\ Timer /\ gui.available # presets
    /\ LET g == [gui EXCEPT !.available = presets]
       IN IF gui.enabled
             THEN Becomes(Submit([State EXCEPT !.gui = [g EXCEPT !.active = presets]], 0))
             ELSE gui' = g /\ UNCHANGED <<loads, locates>>

(* The buttons are those of the page that is shown, the page they ask for   *)
(* is counted from the one that was last asked for.                         *)
Buttons == gui.opened /\ ~gui.loading
Back == gui.page.start > 0
Forth == gui.page.start < LastPage(gui.page.visible)

TurnPage ==
    /\ Input /\ Buttons
    /\ \/ Back /\ Becomes(RequestPage(State, 0))
       \/ Back /\ Becomes(RequestPage(State, Less(gui.start, PageSize)))
       \/ Forth /\ Becomes(RequestPage(State, Min2(LastPage(gui.page.visible), gui.start + PageSize)))
       \/ Forth /\ Becomes(RequestPage(State, LastPage(gui.page.visible)))

-----------------------------------------------------------------------------
(* Navigation to a row.                                                     *)

Answer(s, n, answer) ==
    [s EXCEPT !.gui.nav[n].request = IF @ = "waiting" THEN answer ELSE @]
Forget(s, n) == [s EXCEPT !.gui.nav[n].pending = 0]

(* _select_local_row                                                        *)
Select(s, n, row, place) ==
    IF place < Len(s.gui.rows)
       THEN Answer([s EXCEPT !.gui.selection = [row |-> row, place |-> place,
                                                clean |-> ~s.gui.error]], n, "selected")
       ELSE Answer(s, n, "failed")

(* _location_ready, for a row that was located with the filters in force.   *)
GoTo(s, n, row) ==
    LET g == s.gui
        start == PageOf(Place(g.active, row))
        place == Place(g.active, row) - start
    IN IF row \notin g.active THEN Answer(s, n, "failed")
       ELSE IF (~g.loading /\ g.opened /\ g.page.start = start) \/ IsThere(g, start)
            THEN Select(s, n, row, place)
       ELSE LET asked == Submit(s, start)
            IN [asked EXCEPT !.gui.nav[n].pending = asked.gui.generation, !.gui.nav[n].row = row]

(* _invalidate_current_request: tasks are cancelled, a signal that is       *)
(* posted still arrives; a page that is being loaded for the request is     *)
(* given up, and the one that is shown is loaded again.                     *)
GiveUp(s, n) ==
    LET p == s.gui.nav[n].pending
        fresh == Forget([s EXCEPT !.gui.nav[n].generation = @ + 1,
                                  !.locates = {t \in @ : t.nav # n \/ t.state # "running"}], n)
    IN IF p # 0 /\ p = s.gui.generation /\ s.gui.loading
          THEN RequestPage(fresh, s.gui.page.start) ELSE fresh

(* navigate_to_source_row: without filters at once, with filters by a task. *)
Locate(s, n, row) ==
    LET given == GiveUp(s, n)
    IN IF given.gui.active = All THEN GoTo(given, n, row)
       ELSE [given EXCEPT !.locates = @ \cup
                {[nav |-> n, generation |-> given.gui.nav[n].generation,
                  set |-> given.gui.active, row |-> row, state |-> "running"]}]

Navigate(n) ==
    /\ Input
    /\ \E row \in Rows :
          Becomes(Locate([State EXCEPT !.gui.nav[n].request = "waiting"], n, row))

(* The reading of the index for a row fails in the GUI thread.              *)
NavigateFails(n) ==
    /\ ~gui.closed /\ gui.active = All
    /\ inputs < MaxInputs /\ inputs' = inputs + 1
    /\ failures < MaxFailures /\ failures' = failures + 1
    /\ Becomes(Answer(GiveUp([State EXCEPT !.gui.nav[n].request = "waiting"], n), n, "failed"))
    /\ UNCHANGED <<presets, edits>>

(* cancel: the search window is closed, or another result is chosen.        *)
CancelNavigation(n) ==
    /\ Input
    /\ Becomes(GiveUp(Answer(State, n, "failed"), n))

EndLocate ==
    \E t \in locates :
        /\ t.state = "running"
        /\ \/ locates' = (locates \ {t}) \cup {[t EXCEPT !.state = "done"]} /\ UNCHANGED failures
           \/ /\ failures < MaxFailures /\ failures' = failures + 1
              /\ locates' = (locates \ {t}) \cup {[t EXCEPT !.state = "failed"]}
        /\ UNCHANGED <<presets, gui, loads, inputs, edits>>

Taken(t) == [State EXCEPT !.locates = @ \ {t}]
Newest(t) == t.generation = gui.nav[t.nav].generation

(* Slip: the filters may have changed.                                      *)
GoToPlace(t) ==
    LET start == PageOf(Place(t.set, t.row))
        place == Place(t.set, t.row) - start
        s == Taken(t)
    IN Becomes(IF t.row \notin t.set THEN Answer(s, t.nav, "failed")
               ELSE IF gui.opened /\ ~gui.loading /\ gui.page.start = start
                    THEN Select(s, t.nav, t.row, place)
               ELSE LET asked == Submit(s, start)
                    IN [asked EXCEPT !.gui.nav[t.nav].pending = asked.gui.generation,
                                     !.gui.nav[t.nav].row = t.row])

Arrive(t) ==
    Becomes(IF t.set = gui.active THEN GoTo(Taken(t), t.nav, t.row)
                                  ELSE Locate(Taken(t), t.nav, t.row))

(* _location_ready and _location_failed: a location for other filters than  *)
(* those in force is looked up again.                                       *)
LocationReady ==
    /\ Timer
    /\ \E t \in locates : t.state = "done" /\ Newest(t) /\ Arrive(t)

(* Slip: nobody is told.                                                    *)
LocationLost ==
    /\ Timer
    /\ \E t \in locates : t.state = "failed" /\ Newest(t) /\ Becomes(Taken(t))

LocationFailed ==
    /\ Timer
    /\ \E t \in locates : t.state = "failed" /\ Newest(t)
                            /\ Becomes(Answer(Taken(t), t.nav, "failed"))

LocationStale ==
    /\ Timer
    /\ \E t \in locates : t.state # "running" /\ ~Newest(t) /\ Becomes(Taken(t))

(* _check_pending_page, every 25 ms: a page that something else replaced is *)
(* not waited for, and nobody is told.                                      *)
PendingStale(n) ==
    /\ Timer /\ gui.nav[n].pending # 0 /\ gui.nav[n].pending # gui.generation
    /\ Becomes(Answer(Forget(State, n), n, "dropped"))

PendingEnds(n) ==
    /\ Timer /\ gui.nav[n].pending # 0 /\ gui.nav[n].pending = gui.generation
    /\ ~gui.loading
    /\ LET row == gui.nav[n].row
           start == PageOf(Place(gui.active, row))
       IN Becomes(IF gui.error \/ gui.page.start # start
                     THEN Answer(Forget(State, n), n, "failed")
                     ELSE Select(Forget(State, n), n, row, Place(gui.active, row) - start))

(* shutdown: what is read is cancelled, nobody is told.                     *)
CloseTab ==
    /\ ~gui.closed
    /\ gui' = [gui EXCEPT !.closed = TRUE, !.generation = @ + 1]
    /\ loads' = {} /\ locates' = {}
    /\ UNCHANGED <<presets, bounds>>

-----------------------------------------------------------------------------

Operator ==
    \/ ToggleFilters \/ TurnPage \/ CloseTab
    \/ \E n \in Navigators : Navigate(n) \/ NavigateFails(n)
    \/ \E n \in Cancellable : CancelNavigation(n)

Timers ==
    \/ Poll \/ PollStale \/ ReloadFilters
    \/ LocationReady \/ LocationFailed \/ LocationStale
    \/ \E n \in Navigators : PendingStale(n) \/ PendingEnds(n)

Next == Operator \/ EditPresets \/ Timers \/ EndLoad \/ EndLocate

Spec == Init /\ [][Next]_vars

(* Tasks end; each timer of the GUI thread fires again and again, and a     *)
(* signal that was posted is delivered.                                     *)
Fairness ==
    /\ WF_vars(EndLoad) /\ WF_vars(EndLocate)
    /\ WF_vars(Poll \/ PollStale) /\ WF_vars(ReloadFilters)
    /\ WF_vars(LocationReady \/ LocationFailed \/ LocationStale)
    /\ \A n \in Navigators : WF_vars(PendingStale(n) \/ PendingEnds(n))

FairSpec == Spec /\ Fairness

-----------------------------------------------------------------------------

Pages == [start : Nat, visible : Nat, of : Presets, rows : Seq(Rows)]
Selections == [row : Nat, place : Nat, clean : BOOLEAN]
Requests ==
    [generation : Nat, pending : Nat, row : Nat,
     request : {"none", "waiting", "selected", "failed", "dropped"}]
Guis ==
    [generation : Nat \ {0}, start : Nat, loading : BOOLEAN, error : BOOLEAN,
     page : Pages, opened : BOOLEAN, enabled : BOOLEAN,
     available : Presets, active : Presets, rows : Seq(Rows), rendered : Nat,
     selection : Selections, closed : BOOLEAN, nav : [Navigators -> Requests]]
TaskStates == {"running", "done", "failed"}
Loads == [generation : Nat, set : Presets, start : Nat, state : TaskStates]
Locations == [nav : Navigators, generation : Nat, set : Presets, row : Rows, state : TaskStates]

TypeOK ==
    /\ presets \in Presets /\ gui \in Guis
    /\ loads \subseteq Loads /\ locates \subseteq Locations
    /\ inputs \in Nat /\ edits \in Nat /\ failures \in Nat

(* Once nothing is being loaded, the table has a whole page of the rows     *)
(* that the filters in force let through, the one its label names, however  *)
(* loads overtook each other; unless the last load failed.                  *)
PageIsExact ==
    ~gui.closed /\ ~gui.loading /\ ~gui.error =>
        /\ gui.page = Page(gui.active, gui.start) /\ gui.page.start = gui.start
        /\ gui.rows = gui.page.rows

(* The row that a search or an evidence selects is the one it asked for,    *)
(* though filters, pages and other requests change while it is located and  *)
(* its page is loaded; unless the last load had failed.                     *)
SelectionIsAsked ==
    gui.selection # NoSelection /\ gui.selection.clean =>
        gui.rows[gui.selection.place + 1] = gui.selection.row

(* The same after a load that failed: not so.                               *)
SelectionIsAlwaysAsked ==
    gui.selection # NoSelection => gui.rows[gui.selection.place + 1] = gui.selection.row

(* Whoever waits, waits for something: the tab that says it is loading for  *)
(* the load of its generation, a request for its location or its page;      *)
(* whatever fails, is replaced or cancelled meanwhile.                      *)
Waiting(n) == gui.nav[n].request = "waiting"
NobodyWaitsInVain ==
    ~gui.closed =>
        /\ gui.loading => \E l \in loads : Current(l)
        /\ \A n \in Navigators :
              Waiting(n) => gui.nav[n].pending # 0 \/ \E t \in locates : t.nav = n /\ Newest(t)

(* Why they hold.  A load is known by its generation, and the current one   *)
(* reads what the tab waits for.                                            *)
LoadsInv ==
    /\ \A l \in loads : l.generation <= gui.generation
    /\ \A l, k \in loads : l.generation = k.generation => l = k
    /\ \A l \in loads : Current(l) => gui.loading /\ l.set = gui.active

(* The page of a generation is shown when its load has ended.               *)
ShownInv ==
    /\ gui.rendered <= gui.generation
    /\ ~gui.closed => (gui.loading <=> gui.rendered # gui.generation)

(* A row whose page is waited for is let through by the filters in force,   *)
(* for with other filters there is another generation.                      *)
PendingInv ==
    \A n \in Navigators :
        /\ gui.nav[n].pending <= gui.generation
        /\ gui.nav[n].pending = gui.generation => gui.nav[n].row \in gui.active

StoredIInv ==
    /\ LoadsInv /\ ShownInv /\ PendingInv
    /\ PageIsExact /\ SelectionIsAsked /\ NobodyWaitsInVain

(* In the end the tab has loaded, with the filters the project has.         *)
PageSettles ==
    <>[](gui.closed \/ (~gui.loading /\ (gui.enabled => gui.active = presets)))

(* A request for a row ends: with its row, a message, or because filters,   *)
(* pages or another navigator took the controller from it.                  *)
RequestsEnd == \A n \in Navigators : Waiting(n) ~> (~Waiting(n) \/ gui.closed)

(* comparison_evidence_stored_navigation.py:9: navigation "with a           *)
(* completion callback".  That a callback is always called: not so.         *)
RequestsAreAnswered == \A n \in Navigators : gui.nav[n].request # "dropped"
=============================================================================
