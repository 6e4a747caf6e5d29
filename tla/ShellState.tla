------------------------------ MODULE ShellState ------------------------------
(***************************************************************************)
(* What ShellApp (main.tsx) shows besides the data: the view, the filter   *)
(* of the terminals, their layout and the selected session.  The effects   *)
(* that follow each change keep it in the URL and in the storage of the    *)
(* tab, from which a page that is loaded again reads it.                   *)
(***************************************************************************)
EXTENDS FiniteSets

CONSTANTS
  Views,     \* terminals, canvas, meetings
  Layouts,   \* grid and others
  Ids,       \* session ids
  Filters,   \* "all", "active", the groups and the teams
  Shows      \* whom each filter is for: "all" and "active" not for a hidden team

No == ""     \* no such parameter, or nothing stored

(* Assumed wherever this module is used.                                   *)
StateAssumption ==
  /\ "terminals" \in Views /\ "grid" \in Layouts /\ "all" \in Filters
  /\ No \notin Views \cup Layouts \cup Filters \cup Ids
  /\ Shows \in [Filters -> SUBSET Ids]

VARIABLES
  view, filter, layout,
  selected,   \* selectedSessionId
  rows,       \* the sessions that the page has
  live,       \* those whose status is active
  deferred,   \* deferredVisibleSessions
  url,        \* the parameters of the URL
  store,      \* the session storage
  skip,       \* skipInitialFilterLayoutSyncRef
  dirty       \* something was rendered and its effects have not run yet

vars == <<view, filter, layout, selected, rows, live, deferred, url, store, skip, dirty>>

Urls == [view : Views \cup {No}, filter : Filters \cup {No},
         layout : Layouts \cup {No}, session : Ids \cup {No}]

Stores == [view : Views \cup {No}, filter : Filters \cup {No},
           layouts : [Filters -> Layouts \cup {No}], recent : Ids \cup {No}]

TypeOK ==
  /\ view \in Views /\ filter \in Filters /\ layout \in Layouts
  /\ selected \in Ids \cup {No} /\ rows \subseteq Ids /\ live \subseteq rows /\ deferred \subseteq Ids
  /\ url \in Urls /\ store \in Stores
  /\ skip \in BOOLEAN /\ dirty \in BOOLEAN

Or(a, b) == IF a # No THEN a ELSE b

(* The readStored functions: the URL is asked first.                       *)
StoredView == Or(url.view, Or(store.view, "terminals"))
StoredFilter == Or(url.filter, Or(store.filter, "all"))
StoredLayout == Or(url.layout, Or(store.layouts[StoredFilter], "grid"))
StoredSession == Or(url.session, store.recent)

(* A tab that was never used, with any URL.  A view and a filter in the    *)
(* local storage, which nothing writes any more, count as stored until the *)
(* first effects put others before them.                                   *)
Init ==
  /\ url \in Urls
  /\ store \in {s \in Stores : s.layouts = [f \in Filters |-> No] /\ s.recent = No}
  /\ view = StoredView /\ filter = StoredFilter /\ layout = StoredLayout
  /\ selected = StoredSession
  /\ rows = {} /\ live = {} /\ deferred = {} /\ skip = (url.layout # No) /\ dirty = TRUE

----------------------------------------------------------------------------
(* THE PAGE *)

(* The selected session is shown whatever the filter.                      *)
Visible ==
  {i \in rows \cap Shows[filter] : filter = "active" => i \in live} \cup ({selected} \cap rows)

(* The effects in the order of the code.                                   *)
NextStore ==
  [view |-> view, filter |-> filter, layouts |-> [store.layouts EXCEPT ![filter] = layout],
   recent |-> selected]

(* A selection that the page does not have is replaced by one of the       *)
(* visible sessions, which it remembers from an earlier rendering.         *)
Fallback(s) ==
  IF view = "terminals" /\ selected \notin rows /\ deferred # {}
  THEN s \in deferred
  ELSE s = selected

(* The layout of the filter is read after the layout was stored for it: it *)
(* is always the same.                                                     *)
SyncedLayout == IF skip THEN layout ELSE Or(NextStore.layouts[filter], "grid")

(* writeShellUrlState.                                                     *)
NextUrl ==
  [view |-> view, filter |-> filter, layout |-> layout, session |-> selected]

Effects ==
  /\ dirty
  /\ store' = NextStore /\ url' = NextUrl
  /\ selected' \in Ids \cup {No} /\ Fallback(selected')
  /\ layout' = SyncedLayout /\ skip' = FALSE
  /\ dirty' = (selected' # selected \/ layout' # layout)
  /\ UNCHANGED <<view, filter, rows, live, deferred>>

(* useDeferredValue: the list follows in a rendering of its own.           *)
CatchUp ==
  /\ deferred # Visible /\ deferred' = Visible /\ dirty' = TRUE
  /\ UNCHANGED <<view, filter, layout, selected, rows, live, url, store, skip>>

Refreshed(r, a) ==
  /\ ~dirty /\ <<r, a>> # <<rows, live>> /\ rows' = r /\ live' = a /\ dirty' = TRUE
  /\ UNCHANGED <<view, filter, layout, selected, deferred, url, store, skip>>

Select(i) ==
  /\ ~dirty /\ i \in deferred \ {selected} /\ selected' = i /\ dirty' = TRUE
  /\ UNCHANGED <<view, filter, layout, rows, live, deferred, url, store, skip>>

(* The buttons of the rail, of the filters and of the layouts, and the one *)
(* that opens a terminal in fullscreen; a filter opens the terminals too.  *)
Choose(v, f, l) ==
  /\ ~dirty /\ <<v, f, l>> # <<view, filter, layout>> /\ (f # filter => v = "terminals")
  /\ view' = v /\ filter' = f /\ layout' = l /\ dirty' = TRUE
  /\ UNCHANGED <<selected, rows, live, deferred, url, store, skip>>

Reload ==
  /\ ~dirty
  /\ view' = StoredView /\ filter' = StoredFilter /\ layout' = StoredLayout
  /\ selected' = StoredSession
  /\ rows' = {} /\ live' = {} /\ deferred' = {} /\ skip' = (url.layout # No) /\ dirty' = TRUE
  /\ UNCHANGED <<url, store>>

Next ==
  \/ Effects \/ CatchUp \/ Reload
  \/ (\E r \in SUBSET Ids : \E a \in SUBSET r : Refreshed(r, a))
  \/ (\E i \in Ids : Select(i))
  \/ \E v \in Views, f \in Filters, l \in Layouts : Choose(v, f, l)

Spec == Init /\ [][Next]_vars

----------------------------------------------------------------------------
(* PROPERTIES *)

(* Once the effects have run, a page that is loaded again shows the view,  *)
(* the filter, the layout and the selection of the one before              *)
(* (docs/qa-cdp-tab-layout-origin-9000-20260601-ko.md).                    *)
ReloadRestores ==
  ~dirty => <<StoredView, StoredFilter, StoredLayout, StoredSession>>
            = <<view, filter, layout, selected>>

(* The terminals show a selected session whenever there is one to show.    *)
SelectionExists ==
  ~dirty /\ view = "terminals" /\ deferred = Visible /\ Visible # {} => selected \in rows
=============================================================================
