---------------------------- MODULE ResultsToggle ----------------------------
(***************************************************************************)
(* Opening and closing the files of a search result: SearchResults.Toggle  *)
(* of main.js, a walk through the elements below the one it is called for, *)
(* by firstChild, nextSibling and parentNode.  Elements are numbers, those *)
(* of one parent in their order; 1 holds the whole page.                   *)
(***************************************************************************)
EXTENDS Naturals, FiniteSetsExt

CONSTANTS N, mode

ASSUME ToggleAssumption == N \in Nat \ {0, 1} /\ mode \in {"HTML", "FramedHTML"}

VARIABLES
  parentNode, kind,         \* the document: 0 is no element; kinds are below
  display,                  \* the style of the elements
  element, parentElement,   \* of the walk; parentElement is 0 while there is none
  start                     \* history: display when the walk began

toggleVars == <<parentNode, kind, display, element, parentElement, start>>
document == <<parentNode, kind>>

Element == 1..N
Kind == {"ISubIndex", "DIV", "other"}   \* a DIV of the class ISubIndex, or not, or no DIV
IsDIV(e) == kind[e] \in {"ISubIndex", "DIV"}

ToggleInit ==
  /\ parentNode \in {f \in [Element -> 0..N] : f[1] = 0 /\ \A e \in 2..N : f[e] \in 1..(e - 1)}
  /\ kind \in {f \in [Element -> Kind] : f[1] = "DIV"}
  /\ display = [e \in Element |-> ""]
  /\ element = 0 /\ parentElement = 0
  /\ start = display
-----------------------------------------------------------------------------
(* The document. *)

FirstOrNone(elements) == IF elements = {} THEN 0 ELSE Min(elements)
firstChild(e) == FirstOrNone({c \in Element : parentNode[c] = e})
nextSibling(e) == FirstOrNone({s \in Element : parentNode[s] = parentNode[e] /\ s > e})

Below[e \in 0..N] == IF e = 0 THEN {} ELSE {e} \cup Below[parentNode[e]]
Ancestors(e) == Below[e] \ {e}
-----------------------------------------------------------------------------
(* The walk. *)

\* MUTANT of Ascend: it ends on the ancestor it has come from, not on the sibling.
Ascend_NoSibling(e) == Max({a \in Ancestors(e) : a = parentElement \/ nextSibling(a) # 0})

\* do .. while: the nearest ancestor that has a next sibling or is parentElement.
Ascend(e) ==
  LET last == Max({a \in Ancestors(e) : a = parentElement \/ nextSibling(a) # 0})
  IN IF last = parentElement THEN last ELSE nextSibling(last)

\* MUTANT of Following: the elements inside an open index are left out.
Following_PastIndexes(e) ==
  CASE kind[e] = "DIV" /\ firstChild(e) # 0 -> firstChild(e)
    [] ~(kind[e] = "DIV" /\ firstChild(e) # 0) /\ nextSibling(e) # 0 -> nextSibling(e)
    [] OTHER -> Ascend(e)

Following(e) ==
  CASE IsDIV(e) /\ firstChild(e) # 0 -> firstChild(e)
    [] ~(IsDIV(e) /\ firstChild(e) # 0) /\ nextSibling(e) # 0 -> nextSibling(e)
    [] OTHER -> Ascend(e)

\* A click on a result with files, or on anything else that has an id.
Toggle(id) ==
  /\ parentElement = 0
  /\ mode # "FramedHTML"
  /\ parentElement' = id /\ element' = firstChild(id)
  /\ start' = display
  /\ UNCHANGED <<document, display>>

\* A round of the loop.
Visit ==
  /\ parentElement # 0 /\ element \notin {0, parentElement}
  /\ display' = IF kind[element] = "ISubIndex"
                  THEN [display EXCEPT ![element] = IF @ = "block" THEN "none" ELSE "block"]
                  ELSE display
  /\ element' = Following(element)
  /\ UNCHANGED <<document, parentElement, start>>

Return ==
  /\ parentElement # 0 /\ element \in {0, parentElement}
  /\ parentElement' = 0 /\ element' = 0
  /\ UNCHANGED <<document, display, start>>

ToggleNext == (\E id \in Element : Toggle(id)) \/ Visit \/ Return
-----------------------------------------------------------------------------
(* Properties. *)

ToggleTypeOK ==
  /\ parentNode \in [Element -> 0..N] /\ kind \in [Element -> Kind]
  /\ display \in [Element -> {"", "block", "none"}] /\ start \in [Element -> {"", "block", "none"}]
  /\ element \in 0..N /\ parentElement \in 0..N

\* The elements below the given one that only DIVs lead to.
Reached(id) ==
  {e \in Element : id \in Ancestors(e)
     /\ \A a \in Ancestors(e) \ ({id} \cup Ancestors(id)) : IsDIV(a)}

\* The walk never leaves the part of the page that it is called for, and when it is over it
\* has turned every index below its element, once each, and nothing else, however deep they
\* lie.
TurnsWhatIsBelow ==
  /\ parentElement # 0 =>
       element \in {0, parentElement} \/ parentElement \in Ancestors(element)
  /\ (parentElement # 0 /\ element \in {0, parentElement}) =>
    \A e \in Element :
      display[e] = IF e \in Reached(parentElement) /\ kind[e] = "ISubIndex"
                     THEN (IF start[e] = "block" THEN "none" ELSE "block")
                     ELSE start[e]

\* The walk ends: from every element it goes on, and comes back in the end.
ToggleEnds == (parentElement # 0) ~> (parentElement = 0)
=============================================================================
