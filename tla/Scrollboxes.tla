----------------------------- MODULE Scrollboxes -----------------------------
(***************************************************************************)
(* The fix for the blockquotes of Internet Explorer 6: NDOnLoad, NDOnResize *)
(* and NDDoResize of main.js, and the browser detection they depend on.    *)
(* Internet Explorer 6 widens a parent to what it holds, so the boxes are  *)
(* narrowed before they are given the width of their parent, and again     *)
(* a quarter of a second after the window was last resized.                *)
(***************************************************************************)
EXTENDS Window, FiniteSetsExt

CONSTANTS Box, Parent,      \* the blockquotes, and the parentNode of each
          Agent             \* the user agents: the words main.js looks for in them

ASSUME BoxAssumption ==
  /\ DOMAIN Parent = Box
  /\ \A agent \in Agent : agent \subseteq STRING

VARIABLES
  agt, loaded,
  width,                \* style.width of the boxes
  onresize,             \* window.onresize is NDOnResize
  resizeTimer, resizes  \* whether the handle is set; how many resizes are pending

boxVars == <<agt, loaded, width, onresize, resizeTimer, resizes>>
-----------------------------------------------------------------------------
(* Browser styles. *)

\* The name that goes with the first question that is answered with yes.
FirstOf(questions, names) ==
  LET answered == {n \in DOMAIN questions : questions[n] \cap agt # {}}
  IN IF answered = {} THEN "undefined" ELSE names[Min(answered)]

\* Browsers bear each other's names; the order of the questions tells them apart.
browserType ==
  FirstOf(<<{"opera"}, {"applewebkit"}, {"khtml"}, {"msie"}, {"gecko"}>>,
          <<"Opera", "Safari", "Konqueror", "IE", "Firefox">>)

browserVer ==
  CASE browserType = "Opera" ->
         FirstOf(<<{"opera 7", "opera/7"}, {"opera 8", "opera/8"}, {"opera 9", "opera/9"}>>,
                 <<"Opera7", "Opera8", "Opera9">>)
    [] browserType = "Safari" -> FirstOf(<<{"version/3"}, {"safari/4"}>>, <<"Safari3", "Safari2">>)
    [] browserType = "IE" -> FirstOf(<<{"msie 6"}, {"msie 7"}>>, <<"IE6", "IE7">>)
    [] browserType = "Firefox" ->
         FirstOf(<<{"rv:1.7"}, {"rv:1.8)", "rv:1.8.0"}, {"rv:1.8.1"}>>,
                 <<"Firefox1", "Firefox15", "Firefox2">>)
    [] OTHER -> "undefined"
-----------------------------------------------------------------------------
(* The fix. *)

Narrow == 100
Unset == 0

\* offsetWidth of a parent whose boxes have these widths: of itself it has that of the
\* window.
OffsetWidth(parent, boxWidth) ==
  Max({docWidth} \cup {boxWidth[box] : box \in {b \in Box : Parent[b] = parent}})

\* MUTANT of Resized: the boxes are not narrowed first.
Resized_AsTheyAre == [box \in Box |-> OffsetWidth(Parent[box], width)]

\* The boxes after both loops of NDDoResize.  The second loop widens no parent: every box
\* gets the width its parent has with narrow boxes.
Resized ==
  LET narrowed == [box \in Box |-> Narrow]
  IN [box \in Box |-> OffsetWidth(Parent[box], narrowed)]

\* Both callers come without a timer: it has just fired, or none was ever set.
NDDoResize ==
  /\ width' = Resized
  /\ resizeTimer' = FALSE

BoxInit ==
  /\ agt \in Agent /\ loaded = FALSE
  /\ width = [box \in Box |-> Unset]
  /\ onresize = FALSE /\ resizeTimer = FALSE /\ resizes = 0

NDOnLoad ==
  /\ ~loaded /\ loaded' = TRUE
  /\ IF browserVer = "IE6" /\ Box # {}
       THEN NDDoResize /\ onresize' = TRUE
       ELSE UNCHANGED <<width, onresize, resizeTimer>>
  /\ UNCHANGED <<agt, resizes>>

NDOnResize ==
  /\ resizeTimer' = TRUE
  /\ resizes' = resizes - (IF resizeTimer THEN 1 ELSE 0) + 1

\* The window calls its handler, if it has one.
OnResize ==
  /\ IF onresize THEN NDOnResize ELSE UNCHANGED <<resizeTimer, resizes>>
  /\ UNCHANGED <<agt, loaded, width, onresize>>

ResizeTimer ==
  /\ resizes > 0 /\ resizes' = resizes - 1
  /\ NDDoResize
  /\ UNCHANGED <<agt, loaded, onresize>>
-----------------------------------------------------------------------------
(* Properties. *)

BoxTypeOK ==
  /\ agt \in Agent /\ loaded \in BOOLEAN
  /\ width \in [Box -> Nat]
  /\ onresize \in BOOLEAN /\ resizeTimer \in BOOLEAN /\ resizes \in 0..1

Fits(box) == width[box] = Max({docWidth, Narrow})

\* Where nothing is due, every box is as wide as the window allows, but no narrower than
\* the narrowing, whatever widths came before: when the window shrinks, so do they.  A
\* browser that bears the name of Internet Explorer 6, but is another, has its boxes left
\* alone.
SettledBoxesFit ==
  /\ onresize /\ resizes = 0 => \A box \in Box : Fits(box)
  /\ agt \cap {"opera", "khtml", "applewebkit"} # {} => \A box \in Box : width[box] = Unset

\* When the window comes to rest, the boxes of Internet Explorer 6 come to fit it.
BoxesComeToFit ==
  \A w \in DocWidth :
    <>[](docWidth = w) => <>[](onresize => \A box \in Box : Fits(box))
=============================================================================
