------------------------------- MODULE Cockpit --------------------------------
(***************************************************************************)
(* The interactive review, crates/deep-diff-forge-tui/src: the terminal     *)
(* session and event loop (run.rs), the keys and the mouse (input.rs), the  *)
(* application's state (state.rs), the file tree (tree.rs) and the panes a  *)
(* frame draws (ui.rs).                                                     *)
(*                                                                         *)
(* A frame is drawn, one event is waited for, and every event already       *)
(* queued is applied before the next frame: in a burst the application is    *)
(* ahead of what the reviewer sees.  The terminal's size may change between  *)
(* frames.  Any call on the terminal may fail, and drawing or applying an    *)
(* event may panic.                                                         *)
(***************************************************************************)
EXTENDS Integers, Sequences, FiniteSets, SequencesExt, FiniteSetsExt

CONSTANTS Directories,
          MaxFiles,     \* files of a review
          TermHeights,  \* rows of the terminal
          CommandCount, \* commands of the palette
          MaxEvents     \* events of a session

ASSUME PaletteNotEmpty == CommandCount \in Nat \ {0}
ASSUME HeightsAreNumbers == TermHeights \subseteq Nat

VARIABLES dirs,    \* dirs[i]: dir_of the i-th file in ranked order
          app,     \* ReviewApp
          frame,   \* the last frame: the tree rows it drew, its HitMap, the file selected then
          tty,     \* the device, the stage of the session, and what failed
          clicked, \* the last event, when it was a click in the tree's columns
          events   \* events left

cockpitVars == <<dirs, app, frame, tty, clicked, events>>

Files == 1 .. Len(dirs)
NoClick == [on |-> FALSE, row |-> 0, from |-> 0]
-----------------------------------------------------------------------------
(* tree.rs.  Rows count from 0; a row is a file's index or 0, a directory's header. *)

\* grouped: the files of a directory in ranked order, under the first of them; its other files
\* make no group of their own.
First(i) == Min({j \in Files : dirs[j] = dirs[i]})
grouped == [i \in Files |-> FlattenSeq([j \in Files |-> IF First(j) = i THEN <<j>> ELSE <<>>])]

\* The whole tree: directories in the order of their first file, each below its header.
Tree == FlattenSeq([i \in Files |-> IF grouped[i] = <<>> THEN <<>> ELSE <<0>> \o grouped[i]])
tree_window(from, height) == SubSeq(Tree, from + 1, Min({from + height, Len(Tree)}))

\* The row of a file: a header for its directory and each before it, and the files before it.
RowOf(i) == Cardinality({First(j) : j \in {k \in Files : First(k) <= First(i)}})
            + Cardinality({j \in Files : First(j) < First(i) \/ (First(j) = First(i) /\ j < i)})
selected_row == IF app.selected \in Files THEN RowOf(app.selected) ELSE 0

\* The file at a row, 0 for a header or past the end.
file_index_at_row(row) == IF \E i \in Files : RowOf(i) = row THEN CHOOSE i \in Files : RowOf(i) = row ELSE 0
-----------------------------------------------------------------------------
(* ui.rs: the panes.  Row 0 is the menu; the tree and the diff have borders at row 1   *)
(* and above the status bar, the last row.                                             *)
InnerHeight(height) == Max({height - 4, 0})

keep_visible(row, height) == IF height = 0 \/ row < height THEN 0 ELSE row - height + 1
tree_scroll(height) == keep_visible(selected_row, height)

\* A fault of HitMap: clicks are counted from the top of an unscrolled tree.
Unscrolled(height) == [rows |-> InnerHeight(height), scroll |-> 0]
HitMap(height) == [rows |-> InnerHeight(height), scroll |-> tree_scroll(InnerHeight(height))]

\* render: the tree's rows, from its own scroll.
render_tree(height) == tree_window(tree_scroll(InnerHeight(height)), InnerHeight(height))

NoEvent == [name |-> "None", row |-> 0]
Event(name) == [name |-> name, row |-> 0]

\* HitMap::hit and map_mouse, for a left click at a pane's columns and a screen row.
MenuEvents == {"OpenPalette", "ToggleLayout", "FocusSidebar", "CycleTheme", "ToggleHelp"}
map_mouse(pane, row) ==
  IF row = 0 THEN {NoEvent} \cup {Event(e) : e \in MenuEvents}
  ELSE IF row < 2 \/ row - 2 >= frame.hits.rows THEN {NoEvent}
  ELSE IF pane = "tree" THEN {[name |-> "SelectTreeRow", row |-> frame.hits.scroll + row - 2]}
  ELSE {Event("FocusDiff")}

\* map_key, and the wheel.
KeyEvents == {"Quit", "Cancel", "Select", "OpenPalette", "Next", "Prev", "ToggleLayout", "ToggleFold",
              "ToggleWrap", "ToggleNotes", "ToggleViewed", "CycleTheme", "ToggleHelp", "FocusSidebar",
              "FocusDiff", "ScrollDown", "ScrollUp", "Top", "Bottom", "None"}
-----------------------------------------------------------------------------
(* state.rs: what an event does to the application. *)
AppStart == [selected |-> 1, scroll |-> 0, viewed |-> {}, overlay |-> "none", palette |-> 1, panel |-> 0,
             panelScroll |-> 0, focus |-> "sidebar", side |-> FALSE, fold |-> TRUE, wrap |-> FALSE,
             notes |-> TRUE, theme |-> 0, running |-> TRUE]

select(a, i) == [a EXCEPT !.selected = i, !.scroll = 0]
select_next(a) == IF a.selected < Len(dirs) THEN select(a, a.selected + 1) ELSE a
select_prev(a) == IF a.selected > 1 THEN select(a, a.selected - 1) ELSE a

toggle_viewed(a) ==
  IF a.selected \notin Files THEN a
  ELSE IF a.selected \in a.viewed THEN [a EXCEPT !.viewed = @ \ {a.selected}]
  ELSE select_next([a EXCEPT !.viewed = @ \cup {a.selected}])

select_tree_row(a, row) ==
  LET i == file_index_at_row(row) IN IF i = 0 THEN a ELSE [select(a, i) EXCEPT !.focus = "sidebar"]

handle_review(a, e) ==
  CASE e.name = "Next" -> select_next(a)
    [] e.name = "Prev" -> select_prev(a)
    [] e.name = "ToggleLayout" -> [a EXCEPT !.side = ~@]
    [] e.name = "ScrollUp" -> [a EXCEPT !.scroll = Max({@ - 1, 0})]
    [] e.name = "ScrollDown" -> [a EXCEPT !.scroll = @ + 1]
    [] e.name = "Top" -> select(a, 1)
    [] e.name = "Bottom" -> select(a, Max({Len(dirs), 1}))
    [] e.name = "ToggleFold" -> [a EXCEPT !.fold = ~@]
    [] e.name = "ToggleWrap" -> [a EXCEPT !.wrap = ~@]
    [] e.name = "ToggleNotes" -> [a EXCEPT !.notes = ~@]
    [] e.name = "CycleTheme" -> [a EXCEPT !.theme = (@ + 1) % 4]
    [] e.name = "FocusSidebar" -> [a EXCEPT !.focus = "sidebar"]
    [] e.name \in {"FocusDiff", "Select"} -> [a EXCEPT !.focus = "diff"]
    [] e.name = "ToggleViewed" -> toggle_viewed(a)
    [] e.name = "SelectTreeRow" -> select_tree_row(a, e.row)
    [] e.name = "ToggleHelp" -> [a EXCEPT !.overlay = "help"]
    [] e.name = "OpenPalette" -> [a EXCEPT !.overlay = "palette", !.palette = 1]
    [] e.name = "Cancel" -> [a EXCEPT !.running = FALSE]
    [] OTHER -> a

handle_help(a, e) == IF e.name \in {"ToggleHelp", "Cancel"} THEN [a EXCEPT !.overlay = "none"] ELSE a

\* run_selected_command: every command only reads; the panel is what it printed.
run_selected_command(a) == [a EXCEPT !.panel = a.palette, !.panelScroll = 0, !.overlay = "panel"]

handle_palette(a, e) ==
  CASE e.name = "Next" -> [a EXCEPT !.palette = (@ % CommandCount) + 1]
    [] e.name = "Prev" -> [a EXCEPT !.palette = ((@ + CommandCount - 2) % CommandCount) + 1]
    [] e.name = "Top" -> [a EXCEPT !.palette = 1]
    [] e.name = "Bottom" -> [a EXCEPT !.palette = CommandCount]
    [] e.name = "Select" -> run_selected_command(a)
    [] e.name \in {"Cancel", "OpenPalette"} -> [a EXCEPT !.overlay = "none"]
    [] OTHER -> a

handle_panel(a, e) ==
  CASE e.name \in {"ScrollDown", "Next"} -> [a EXCEPT !.panelScroll = @ + 1]
    [] e.name \in {"ScrollUp", "Prev"} -> [a EXCEPT !.panelScroll = Max({@ - 1, 0})]
    [] e.name = "Top" -> [a EXCEPT !.panelScroll = 0]
    [] e.name = "Cancel" -> [a EXCEPT !.overlay = "palette"]
    [] e.name = "OpenPalette" -> [a EXCEPT !.overlay = "none"]
    [] OTHER -> a

handle(a, e) ==
  IF e.name = "Quit" THEN [a EXCEPT !.running = FALSE]
  ELSE CASE a.overlay = "none" -> handle_review(a, e)
         [] a.overlay = "help" -> handle_help(a, e)
         [] a.overlay = "palette" -> handle_palette(a, e)
         [] a.overlay = "panel" -> handle_panel(a, e)
-----------------------------------------------------------------------------
(* run.rs: the session. *)
CockpitInit ==
  /\ dirs \in BoundedSeq(Directories, MaxFiles)
  /\ app = AppStart
  /\ frame = [rows |-> <<>>, hits |-> [rows |-> 0, scroll |-> 0], of |-> 0]
  /\ tty = [raw |-> FALSE, screen |-> FALSE, pc |-> "start", armed |-> FALSE, failed |-> {}, result |-> "none"]
  /\ clicked = NoClick /\ events = MaxEvents

\* Nothing has changed when raw mode cannot be switched on.
RawOn ==
  /\ tty.pc = "start"
  /\ \/ tty' = [tty EXCEPT !.raw = TRUE, !.armed = TRUE, !.pc = "enter"]
     \/ tty' = [tty EXCEPT !.pc = "done", !.result = "error"]
  /\ UNCHANGED <<dirs, app, frame, clicked, events>>

\* The sequences that enter the alternate screen: a write that fails may have sent some of them.
EnterScreen ==
  /\ tty.pc = "enter"
  /\ \/ tty' = [tty EXCEPT !.screen = TRUE, !.pc = "loop"]
     \/ \E sent \in BOOLEAN : tty' = [tty EXCEPT !.screen = sent, !.pc = "drop", !.result = "error"]
  /\ UNCHANGED <<dirs, app, frame, clicked, events>>

\* event_loop: draw a frame and remember where it drew; or fail, or panic; or the review has ended.
Draw ==
  /\ tty.pc = "loop" /\ app.running
  /\ \E height \in TermHeights :
       frame' = [rows |-> render_tree(height), hits |-> HitMap(height), of |-> app.selected]
  /\ tty' = [tty EXCEPT !.pc = "read"]
  /\ clicked' = NoClick
  /\ UNCHANGED <<dirs, app, events>>
LoopEnds ==
  /\ tty.pc = "loop" /\ ~app.running
  /\ tty' = [tty EXCEPT !.pc = "finish", !.result = "ok"]
  /\ UNCHANGED <<dirs, app, frame, clicked, events>>
LoopFails ==
  /\ tty.pc \in {"loop", "read", "drain"}
  /\ tty' = [tty EXCEPT !.pc = "finish", !.result = "error"]
  /\ UNCHANGED <<dirs, app, frame, clicked, events>>
Panics ==
  /\ tty.pc \in {"loop", "read"}
  /\ tty' = [tty EXCEPT !.pc = "drop", !.result = "panic"]
  /\ UNCHANGED <<dirs, app, frame, clicked, events>>

\* read and dispatch of one event, against the frame last drawn.
dispatch(e) ==
  /\ tty.pc = "read" /\ events > 0
  /\ app' = handle(app, e)
  /\ events' = events - 1
  /\ tty' = [tty EXCEPT !.pc = "drain"]
  /\ UNCHANGED <<dirs, frame>>
Key == /\ \E name \in KeyEvents : dispatch(Event(name))
       /\ clicked' = NoClick
Click == \E pane \in {"tree", "diff"}, row \in UNION {0 .. h - 1 : h \in TermHeights} :
           \E e \in map_mouse(pane, row) :
           /\ dispatch(e)
           /\ clicked' = IF pane = "tree" THEN [on |-> TRUE, row |-> row, from |-> app.selected] ELSE NoClick

\* poll: more events are queued, or a frame is due.
PollEvents ==
  /\ tty.pc = "drain"
  /\ tty' = [tty EXCEPT !.pc = IF app.running THEN "read" ELSE "loop"]
  /\ UNCHANGED <<dirs, app, frame, clicked, events>>
Redraws ==
  /\ tty.pc = "drain" /\ app.running
  /\ tty' = [tty EXCEPT !.pc = "loop"]
  /\ UNCHANGED <<dirs, app, frame, clicked, events>>

\* restore: both halves are attempted, whatever the first one does.
restore(rawOff, left) == [raw |-> ~rawOff, screen |-> tty.screen /\ ~left]

\* The end of a session, restore included: its error comes before the loop's.
EndSession(rawOff, left, result) ==
  tty' = [tty EXCEPT !.raw = restore(rawOff, left).raw, !.screen = restore(rawOff, left).screen,
                     !.failed = {h \in {"raw", "screen"} : ~IF h = "raw" THEN rawOff ELSE left},
                     !.armed = FALSE, !.pc = "done", !.result = result]
Finish ==
  /\ tty.pc = "finish"
  /\ \E rawOff, left, cursor \in BOOLEAN :
       EndSession(rawOff, left, IF rawOff /\ left /\ cursor THEN tty.result ELSE "error")
  /\ UNCHANGED <<dirs, app, frame, clicked, events>>
\* The guard's drop, on an early return or a panic: errors are ignored.
DropGuard ==
  /\ tty.pc = "drop"
  /\ IF tty.armed THEN \E rawOff, left \in BOOLEAN : EndSession(rawOff, left, tty.result)
     ELSE tty' = [tty EXCEPT !.pc = "done"]
  /\ UNCHANGED <<dirs, app, frame, clicked, events>>

CockpitNext == \/ RawOn \/ EnterScreen \/ Draw \/ LoopEnds \/ LoopFails \/ Panics \/ Key \/ Click
               \/ PollEvents \/ Redraws \/ Finish \/ DropGuard
CockpitSpec == CockpitInit /\ [][CockpitNext]_cockpitVars
-----------------------------------------------------------------------------
\* The screen and the application mean the same file: a frame shows the file that is selected,
\* and a click that moves the selection moves it to the file the reviewer saw at that row, even
\* when earlier events of the burst moved the tree (run.rs event_loop, ui.rs HitMap).
ClickIsAsSeen ==
  /\ frame.hits.rows > 0 /\ dirs # <<>> => frame.of \in Range(frame.rows)
  /\ clicked.on /\ app.selected # clicked.from =>
       /\ clicked.row - 1 \in DOMAIN frame.rows
       /\ frame.rows[clicked.row - 1] = app.selected

\* However a session ends - an error at any stage, a panic, or a normal quit - each half of the
\* terminal is given back unless giving back that half itself failed, and a session that reports
\* success gave back both (run.rs session, TerminalGuard).
TerminalGivenBack ==
  tty.pc = "done" =>
    /\ tty.raw => "raw" \in tty.failed
    /\ tty.screen => "screen" \in tty.failed
    /\ tty.result = "ok" => ~tty.raw /\ ~tty.screen

\* What the reviewer sees is what the application means, and the terminal is theirs again after.
ClickMeansWhatWasSeen == ClickIsAsSeen /\ TerminalGivenBack
=============================================================================
