------------------------------ MODULE Tooltips ------------------------------
(***************************************************************************)
(* The tooltips of the documentation's links: ShowTip, ReallyShowTip and   *)
(* HideTip of main.js.  A link calls ShowTip when the mouse comes over it  *)
(* and HideTip when it goes; the tip comes up one second after ShowTip.    *)
(***************************************************************************)
EXTENDS Window, Integers, Sequences

CONSTANTS Link,          \* the links that have a tooltip
          OffsetLeft,    \* of a link and its offsetParents up to the body, as sequences
          Unplaced,      \* the links whose vertical position the browser does not tell
          MouseX,        \* where the mouse may be, from the left of the page
          TipWidth,      \* offsetWidth of a link's tooltip
          None

ASSUME TipAssumption ==
  /\ None \notin Link /\ None \notin [link : Link, docX : MouseX]
  /\ OffsetLeft \in [Link -> Seq(Int)] /\ Unplaced \subseteq Link /\ MouseX \subseteq Nat
  /\ TipWidth \in [Link -> Nat]

VARIABLES
  hover,            \* the link under the mouse
  tooltipTimer,     \* the handle: the timer it stands for
  tips,             \* the calls of ReallyShowTip the browser is to make
  visible, left     \* the tooltips that are visible, and where each was put

tipVars == <<hover, tooltipTimer, tips, visible, left>>

TipInit ==
  /\ hover = None
  /\ tooltipTimer = None /\ tips = {}
  /\ visible = {} /\ left = [link \in Link |-> 0]
-----------------------------------------------------------------------------
(* The functions of main.js. *)

\* position after every round of the loop.
PositionAfter(offset) ==
  LET position[n \in 0..Len(offset)] == IF n = 0 THEN 0 ELSE position[n - 1] + offset[n]
  IN position

GetXPosition(link) == PositionAfter(OffsetLeft[link])[Len(OffsetLeft[link])]

\* Where a tip would begin: at its link, or else at the mouse.
Wanted(tip) == IF tip.link \in Unplaced THEN tip.docX ELSE GetXPosition(tip.link)

\* MUTANT of LeftOf: the left border first, then the right one.
LeftOf_BordersSwapped(tip, width) ==
  LET position == IF Wanted(tip) < 0 THEN 0 ELSE Wanted(tip)
  IN IF position + TipWidth[tip.link] > width THEN width - TipWidth[tip.link] - 1
                                              ELSE position

\* Where ReallyShowTip puts a tip, for a width of the document: not over the right border,
\* and rather over the right border than over the left one.
LeftOf(tip, width) ==
  LET fitted == IF Wanted(tip) + TipWidth[tip.link] > width
                  THEN width - TipWidth[tip.link] - 1
                  ELSE Wanted(tip)
  IN IF fitted < 0 THEN 0 ELSE fitted

ShowTip(link, docX) ==
  /\ tooltipTimer' = [link |-> link, docX |-> docX]
  /\ tips' = (tips \ {tooltipTimer}) \cup {tooltipTimer'}

ReallyShowTip(tip) ==
  /\ tooltipTimer' = None
  /\ left' = [left EXCEPT ![tip.link] = LeftOf(tip, docWidth)]
  /\ visible' = visible \cup {tip.link}

\* MUTANT of HideTip: a tip that has not come up yet is not called off.
HideTip_VisibleOnly(link) ==
  /\ UNCHANGED <<tips, tooltipTimer>>
  /\ visible' = visible \ {link}

HideTip(link) ==
  /\ tips' = tips \ {tooltipTimer}
  /\ tooltipTimer' = None
  /\ visible' = visible \ {link}
-----------------------------------------------------------------------------
(* The browser. *)

MouseOver(link) ==
  /\ hover = None /\ hover' = link
  /\ \E docX \in MouseX : ShowTip(link, docX)
  /\ UNCHANGED <<visible, left>>

MouseOut ==
  /\ hover # None /\ hover' = None
  /\ HideTip(hover)
  /\ UNCHANGED left

TipTimer ==
  /\ \E tip \in tips : tips' = tips \ {tip} /\ ReallyShowTip(tip)
  /\ UNCHANGED hover

TipNext == (\E link \in Link : MouseOver(link)) \/ MouseOut \/ TipTimer
-----------------------------------------------------------------------------
(* Properties. *)

Tip == [link : Link, docX : MouseX]

TipTypeOK ==
  /\ hover \in Link \cup {None}
  /\ tooltipTimer \in Tip \cup {None} /\ tips \subseteq Tip
  /\ visible \subseteq Link /\ left \in [Link -> Nat]

\* The handle is never stale: it stands for the one timer there is, and that timer is for
\* the link under the mouse; clearTimeout never misses a timer.
HandleIsExact ==
  /\ tips = {tooltipTimer} \ {None}
  /\ \A tip \in tips : tip.link = hover

\* Only the tip of the link under the mouse is visible: none stays up, and none comes up
\* after the mouse has gone on to another link, since no timer outlives its link.
OnlyTheHoveredTip == visible \subseteq {hover} /\ HandleIsExact

\* A tip comes up on the page: it does not begin left of the page, and it goes over the
\* right border only where it is too wide for the page.
ComesUpOnThePage ==
  [][ \A link \in visible' \ visible :
        /\ left'[link] >= 0
        /\ left'[link] > 0 => left'[link] + TipWidth[link] <= docWidth ]_tipVars

\* The mouse resting on a link brings its tip up.
RestingShowsTheTip ==
  \A link \in Link : (hover = link) ~> (link \in visible \/ hover # link)
=============================================================================
