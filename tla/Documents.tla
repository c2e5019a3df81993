------------------------------ MODULE Documents ------------------------------
(***************************************************************************)
(* The documents of the documentation under the scripts of main.js that    *)
(* are not the search panel's: the menu and HideAllBut, a page of content  *)
(* with its tooltips and blockquotes, which share the window, a page of    *)
(* results that a search shows, and one whose results open and close.      *)
(* They are documents of their own and share no variable, so a behaviour   *)
(* is watched in one of them while the others stay as they are.            *)
(***************************************************************************)
EXTENDS Menu, Tooltips, Scrollboxes, ResultsToggle, SearchResults

ASSUME DocumentsAssumption == {} \in Agent   \* a browser nobody has heard of

VARIABLE watched         \* the document in which something happens

vars == <<watched, menuVars, docWidth, tipVars, boxVars, toggleVars, resultVars>>

\* Of the documents that are not watched one state is enough.
Init ==
  /\ watched \in {"menu", "content", "results", "files"}
  /\ MenuInit
  /\ docWidth \in DocWidth /\ TipInit /\ BoxInit
  /\ watched # "content" => docWidth = Max(DocWidth) /\ agt = {}
  /\ ToggleInit
  /\ watched # "files" => \A e \in 2..N : parentNode[e] = 1 /\ kind[e] = "other"
  /\ ResultInit

\* window.onresize: the tips keep their places, the boxes may have to be fitted.
Resize ==
  /\ docWidth' \in DocWidth \ {docWidth}
  /\ OnResize
  /\ UNCHANGED tipVars

MenuStep ==
  /\ watched = "menu" /\ MenuNext
  /\ UNCHANGED <<watched, docWidth, tipVars, boxVars, toggleVars, resultVars>>

ContentStep ==
  /\ watched = "content"
  /\ \/ TipNext /\ UNCHANGED <<docWidth, boxVars>>
     \/ (NDOnLoad \/ ResizeTimer) /\ UNCHANGED <<docWidth, tipVars>>
     \/ Resize
  /\ UNCHANGED <<watched, menuVars, toggleVars, resultVars>>

FilesStep ==
  /\ watched = "files" /\ ToggleNext
  /\ UNCHANGED <<watched, menuVars, docWidth, tipVars, boxVars, resultVars>>

ResultsStep ==
  /\ watched = "results" /\ ResultNext
  /\ UNCHANGED <<watched, menuVars, docWidth, tipVars, boxVars, toggleVars>>

Next == MenuStep \/ ContentStep \/ FilesStep \/ ResultsStep

\* A loop that runs goes on, a timer that is due fires, a page that is loaded says so.
Spec ==
  /\ Init /\ [][Next]_vars
  /\ WF_vars(MenuStep /\ (HideNext \/ HideAllButReturns))
  /\ WF_vars(FilesStep /\ (Visit \/ Return))
  /\ WF_vars(ContentStep /\ TipTimer)
  /\ WF_vars(ContentStep /\ NDOnLoad)
  /\ WF_vars(ContentStep /\ ResizeTimer)
-----------------------------------------------------------------------------
(* Properties. *)

TypeOK == MenuTypeOK /\ TipTypeOK /\ docWidth \in DocWidth /\ BoxTypeOK

\* The scripts come to rest with their work done: HideAllBut uses up its ids and looks at
\* every group; Toggle walks back to its element; a mouse that rests brings its tip up; and
\* the blockquotes of Internet Explorer 6 come to fit a window that has come to rest.
ComesToRest == HideAllButEnds /\ ToggleEnds /\ RestingShowsTheTip /\ BoxesComeToFit
=============================================================================
