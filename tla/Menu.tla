-------------------------------- MODULE Menu --------------------------------
(***************************************************************************)
(* The menu of the documentation: ToggleMenu and HideAllBut of main.js.    *)
(* menu.html calls HideAllBut at its end; a visitor may click on the       *)
(* headings of the groups before and after, but not while it runs.  The    *)
(* groups are the numbers below max.                                       *)
(***************************************************************************)
EXTENDS Naturals, FiniteSetsExt

CONSTANT max

ASSUME MenuAssumption == max \in Nat \ {0}

Group == 1..(max - 1)

VARIABLES
  pc,            \* of HideAllBut: "ahead", "hiding" or "over"
  ids, number,   \* of HideAllBut: what is left of the sorted array, and the loop's counter
  menuDisplay,       \* the style of the groups
  kept,          \* history: the groups HideAllBut was told to leave alone
  before         \* history: what the style of the groups was when it began

menuVars == <<pc, ids, number, menuDisplay, kept, before>>

\* A style that is not set shows the group, too.
Style == {"", "block", "none"}

MenuInit ==
  /\ pc = "ahead" /\ ids = {} /\ number = 1
  /\ menuDisplay = [group \in Group |-> ""]
  /\ kept = {} /\ before = menuDisplay

\* ToggleMenu: a click on the heading of a group.
ToggleMenu(group) ==
  /\ pc # "hiding"
  /\ menuDisplay' = [menuDisplay EXCEPT ![group] = IF @ = "none" THEN "block" ELSE "none"]
  /\ UNCHANGED <<pc, ids, number, kept, before>>

\* HideAllBut is called.  The ids are the groups the page lies in, none twice, and
\* sorted they are the set whose least element is ids[0].
HideAllBut(groups) ==
  /\ pc = "ahead" /\ pc' = "hiding"
  /\ ids' = groups /\ number' = 1
  /\ kept' = groups /\ before' = menuDisplay
  /\ UNCHANGED menuDisplay

\* MUTANT of HideNext: an id is taken off the array although its turn has not come.
HideNext_ShiftsAlways ==
  /\ pc = "hiding" /\ number < max
  /\ IF ids # {} /\ number = Min(ids)
       THEN UNCHANGED menuDisplay
       ELSE menuDisplay' = [menuDisplay EXCEPT ![number] = "none"]
  /\ ids' = IF ids = {} THEN ids ELSE ids \ {Min(ids)}
  /\ number' = number + 1
  /\ UNCHANGED <<pc, kept, before>>

\* A round of the loop: the counter is compared with ids[0], if there is one.
HideNext ==
  /\ pc = "hiding" /\ number < max
  /\ IF number \in ids /\ \A id \in ids : number <= id
       THEN ids' = ids \ {number} /\ UNCHANGED menuDisplay
       ELSE menuDisplay' = [menuDisplay EXCEPT ![number] = "none"] /\ UNCHANGED ids
  /\ number' = number + 1
  /\ UNCHANGED <<pc, kept, before>>

HideAllButReturns ==
  /\ pc = "hiding" /\ number >= max /\ pc' = "over"
  /\ before' = menuDisplay
  /\ UNCHANGED <<ids, number, menuDisplay, kept>>

MenuNext ==
  \/ \E group \in Group : ToggleMenu(group)
  \/ \E groups \in SUBSET Group : HideAllBut(groups)
  \/ HideNext
  \/ HideAllButReturns
-----------------------------------------------------------------------------
(* Properties. *)

MenuTypeOK ==
  /\ pc \in {"ahead", "hiding", "over"}
  /\ ids \subseteq Group /\ number \in 1..max
  /\ menuDisplay \in [Group -> Style] /\ before \in [Group -> Style]
  /\ kept \subseteq Group

\* So far the loop has hidden the groups below its counter, those it was told to keep
\* excepted, and has touched nothing else; a group the visitor had closed stays closed.
\* When the counter is at max, that is the whole menu.
HidesTheOthers ==
  pc = "hiding" =>
    /\ ids = {group \in kept : group >= number}
    /\ menuDisplay = [group \in Group |->
                    IF group < number /\ group \notin kept THEN "none" ELSE before[group]]

\* HideAllBut ends: the ids are used up and every group is looked at.
HideAllButEnds == (pc = "hiding") ~> (pc = "over" /\ ids = {} /\ number = max)
=============================================================================
