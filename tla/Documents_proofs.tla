--------------------------- MODULE Documents_proofs ---------------------------
(***************************************************************************)
(* Theorems about the documents of the documentation: the menu, the        *)
(* tooltips, the blockquotes, Toggle and the results of searches, for      *)
(* menus of any length, any links, any boxes, documents of any size, and   *)
(* any names and texts searched for.                                       *)
(***************************************************************************)
EXTENDS Documents, FiniteSetTheorems, SequenceTheorems, WellFoundedInduction, TLAPS

-----------------------------------------------------------------------------
(* HideAllBut. *)

MenuInv == MenuTypeOK /\ HidesTheOthers

LEMMA MenuInvInit == Init => MenuInv
<1> SUFFICES ASSUME Init PROVE MenuInv
  OBVIOUS
<1>1. MenuInit
  BY DEF Init
<1>2. number \in 1..max
  <2>1. number = 1
    BY <1>1 DEF MenuInit
  <2> QED
    BY <2>1, MenuAssumption
<1>3. menuDisplay \in [Group -> Style] /\ before \in [Group -> Style]
  BY <1>1 DEF MenuInit, Style
<1> QED
  BY <1>1, <1>2, <1>3 DEF MenuInit, MenuInv, MenuTypeOK, HidesTheOthers

LEMMA MenuStepInv == MenuInv /\ MenuNext => MenuInv'
<1> SUFFICES ASSUME MenuInv, MenuNext PROVE MenuInv'
  OBVIOUS
<1>1. MenuTypeOK /\ HidesTheOthers /\ max \in Nat \ {0}
  BY MenuAssumption DEF MenuInv
<1>2. ASSUME NEW group \in Group, ToggleMenu(group) PROVE MenuInv'
  BY <1>1, <1>2 DEF ToggleMenu, MenuInv, MenuTypeOK, HidesTheOthers, Style
<1>3. ASSUME NEW groups \in SUBSET Group, HideAllBut(groups) PROVE MenuInv'
  <2>1. MenuTypeOK'
    BY <1>1, <1>3 DEF HideAllBut, MenuTypeOK, Group
  <2>2. groups = {group \in groups : group >= 1}
    <3>1. \A group \in groups : group >= 1
      BY <1>1 DEF Group
    <3> QED
      BY <3>1
  <2>3. menuDisplay = [group \in Group |-> IF group < 1 /\ group \notin groups
                                             THEN "none" ELSE menuDisplay[group]]
    BY <1>1 DEF Group, MenuTypeOK
  <2> QED
    BY <1>3, <2>1, <2>2, <2>3 DEF HideAllBut, MenuInv, HidesTheOthers
<1>4. CASE HideNext
  <2>1. /\ number \in 1..(max - 1) /\ number \in Group /\ number' = number + 1
        /\ kept' = kept /\ before' = before /\ pc' = pc /\ pc = "hiding"
    BY <1>1, <1>4 DEF HideNext, MenuTypeOK, Group
  <2>2. /\ ids = {group \in kept : group >= number}
        /\ menuDisplay = [group \in Group |->
                            IF group < number /\ group \notin kept THEN "none" ELSE before[group]]
    BY <1>1, <2>1 DEF HidesTheOthers
  \* What is left of the ids begins with the counter or lies above it.
  <2>3. (number \in ids /\ \A id \in ids : number <= id) <=> number \in kept
    <3>1. \A id \in ids : number <= id
      BY <1>1, <2>1, <2>2 DEF MenuTypeOK, Group
    <3> QED
      BY <2>1, <2>2, <3>1
  <2>4. \A group \in Group : /\ (group >= number /\ group # number) <=> group >= number + 1
                             /\ (group < number \/ group = number) <=> group < number + 1
    BY <1>1, <2>1 DEF Group
  <2>5. number' \in 1..max /\ kept \subseteq Group
    BY <1>1, <2>1 DEF MenuTypeOK
  <2>6. CASE number \in kept
    <3>1. ids' = ids \ {number} /\ menuDisplay' = menuDisplay
      BY <1>4, <2>3, <2>6 DEF HideNext
    <3>2. ids' = {group \in kept : group >= number + 1}
      BY <2>2, <2>4, <2>5, <3>1
    <3>3. menuDisplay' = [group \in Group |-> IF group < number + 1 /\ group \notin kept
                                                THEN "none" ELSE before[group]]
      <4>1. \A group \in Group : group \notin kept => (group < number <=> group < number + 1)
        BY <2>6, <2>4
      <4> QED
        BY <2>2, <3>1, <4>1
    <3> QED
      BY <1>1, <2>1, <2>5, <3>1, <3>2, <3>3 DEF MenuInv, MenuTypeOK, HidesTheOthers
  <2>7. CASE number \notin kept
    <3>1. ids' = ids /\ menuDisplay' = [menuDisplay EXCEPT ![number] = "none"]
      BY <1>4, <2>3, <2>7 DEF HideNext
    <3>2. ids' = {group \in kept : group >= number + 1}
      BY <2>2, <2>4, <2>5, <2>7, <3>1
    <3>3. menuDisplay' = [group \in Group |-> IF group < number + 1 /\ group \notin kept
                                                THEN "none" ELSE before[group]]
      <4>1. \A group \in Group : (group < number \/ group = number) <=> group < number + 1
        BY <2>4
      <4>2. DOMAIN menuDisplay' = Group /\ menuDisplay'[number] = "none"
        BY <2>1, <2>2, <3>1
      <4>3. \A group \in Group : group # number => menuDisplay'[group] = menuDisplay[group]
        BY <2>2, <3>1
      <4>4. menuDisplay' = [group \in Group |-> menuDisplay'[group]]
        BY <3>1, <4>2
      <4>5. \A group \in Group : menuDisplay'[group] =
              IF group < number + 1 /\ group \notin kept THEN "none" ELSE before[group]
        BY <2>1, <2>2, <2>7, <2>4, <4>1, <4>2, <4>3
      <4> QED
        BY <4>4, <4>5
    <3>4. menuDisplay' \in [Group -> Style]
      BY <1>1, <3>1 DEF MenuTypeOK, Style
    <3> QED
      <4>1. MenuTypeOK'
        BY <1>1, <2>1, <2>5, <3>1, <3>4 DEF MenuTypeOK
      <4>2. HidesTheOthers'
        BY <2>1, <3>2, <3>3 DEF HidesTheOthers
      <4> QED
        BY <4>1, <4>2 DEF MenuInv
  <2> QED
    BY <2>6, <2>7
<1>5. CASE HideAllButReturns
  BY <1>1, <1>5 DEF HideAllButReturns, MenuInv, MenuTypeOK, HidesTheOthers
<1> QED
  BY <1>2, <1>3, <1>4, <1>5 DEF MenuNext

LEMMA MenuInvStep == MenuInv /\ [Next]_vars => MenuInv'
<1>1. [Next]_vars => MenuNext \/ UNCHANGED menuVars
  BY DEF Next, vars, MenuStep, ContentStep, FilesStep, ResultsStep
<1>2. MenuInv /\ UNCHANGED menuVars => MenuInv'
  BY DEF menuVars, MenuInv, MenuTypeOK, HidesTheOthers
<1> QED
  BY <1>1, <1>2, MenuStepInv

\* HideAllBut has at every moment hidden the groups below its counter, those it was told to
\* keep excepted, and no others: the ids are used up in step with the counter.
THEOREM MenuHidesTheOthers == Spec => []HidesTheOthers
<1>1. MenuInv => HidesTheOthers
  BY DEF MenuInv
<1> QED
  BY <1>1, MenuInvInit, MenuInvStep, PTL DEF Spec

-----------------------------------------------------------------------------
(* Tooltips. *)

\* The handle, the timer and the tip belong to the link under the mouse.
TipInv ==
  /\ hover \in Link \cup {None}
  /\ tooltipTimer \in Tip \cup {None}
  /\ visible \subseteq Link
  /\ OnlyTheHoveredTip

LEMMA TipInvInit == Init => TipInv
BY DEF Init, TipInit, TipInv, OnlyTheHoveredTip, HandleIsExact

LEMMA TipStepInv == TipInv /\ TipNext => TipInv'
<1> SUFFICES ASSUME TipInv, TipNext PROVE TipInv'
  OBVIOUS
<1>1. None \notin Link /\ None \notin Tip
  BY TipAssumption DEF Tip
<1>2. hover = None => visible = {} /\ tips = {} /\ tooltipTimer = None
  BY <1>1 DEF TipInv, OnlyTheHoveredTip, HandleIsExact, Tip
<1>3. ASSUME NEW link \in Link, MouseOver(link) PROVE TipInv'
  <2>1. PICK docX \in MouseX : ShowTip(link, docX)
    BY <1>3 DEF MouseOver
  <2>2. [link |-> link, docX |-> docX] \in Tip
    BY DEF Tip
  <2>3. /\ tooltipTimer' = [link |-> link, docX |-> docX]
        /\ tips' = {tooltipTimer'}
        /\ hover' = link /\ visible' = {}
    BY <1>2, <1>3, <2>1 DEF MouseOver, ShowTip
  <2> QED
    BY <1>1, <2>2, <2>3 DEF TipInv, OnlyTheHoveredTip, HandleIsExact
<1>4. CASE MouseOut
  <2>1. tips' = {} /\ tooltipTimer' = None /\ visible' = {} /\ hover' = None
    BY <1>4 DEF MouseOut, HideTip, TipInv, OnlyTheHoveredTip, HandleIsExact
  <2> QED
    BY <2>1 DEF TipInv, OnlyTheHoveredTip, HandleIsExact
<1>5. CASE TipTimer
  <2>1. PICK tip \in tips : tips' = tips \ {tip} /\ ReallyShowTip(tip)
    BY <1>5 DEF TipTimer
  <2>2. tip = tooltipTimer /\ tip \in Tip /\ tip.link = hover /\ tip.link \in Link
    BY <1>1 DEF TipInv, OnlyTheHoveredTip, HandleIsExact, Tip
  <2>3. /\ tips' = {} /\ tooltipTimer' = None
        /\ visible' = visible \cup {hover} /\ hover' = hover
    BY <1>5, <2>1, <2>2 DEF TipTimer, ReallyShowTip, TipInv, OnlyTheHoveredTip, HandleIsExact
  <2> QED
    BY <2>2, <2>3 DEF TipInv, OnlyTheHoveredTip, HandleIsExact
<1> QED
  BY <1>3, <1>4, <1>5 DEF TipNext

LEMMA TipInvStep == TipInv /\ [Next]_vars => TipInv'
<1>1. [Next]_vars => TipNext \/ UNCHANGED tipVars
  BY DEF Next, vars, MenuStep, ContentStep, FilesStep, ResultsStep, Resize
<1>2. TipInv /\ UNCHANGED tipVars => TipInv'
  BY DEF tipVars, TipInv, OnlyTheHoveredTip, HandleIsExact
<1> QED
  BY <1>1, <1>2, TipStepInv

\* Only the tip of the link under the mouse is up, and the one timer is for that link,
\* whatever way the mouse takes and whenever the timer fires.
THEOREM TipsFollowTheMouse == Spec => []OnlyTheHoveredTip
<1>1. TipInv => OnlyTheHoveredTip
  BY DEF TipInv
<1> QED
  BY <1>1, TipInvInit, TipInvStep, PTL DEF Spec

-----------------------------------------------------------------------------
(* Blockquotes. *)

\* The order of the questions: a browser that bears one of the first three names is not
\* taken for Internet Explorer.
LEMMA LeastAnswer ==
  ASSUME NEW answered \in SUBSET (1..5), answered # {}
  PROVE  Min(answered) \in answered /\ \A n \in answered : Min(answered) <= n
<1>1. \E least \in answered : \A n \in answered : least <= n
  <2>1. CASE 1 \in answered
    BY <2>1
  <2>2. CASE 1 \notin answered /\ 2 \in answered
    BY <2>2
  <2>3. CASE {1, 2} \cap answered = {} /\ 3 \in answered
    BY <2>3
  <2>4. CASE {1, 2, 3} \cap answered = {} /\ 4 \in answered
    BY <2>4
  <2>5. CASE {1, 2, 3, 4} \cap answered = {} /\ 5 \in answered
    BY <2>5
  <2>6. \E n \in answered : n \in {1, 2, 3, 4, 5}
    <3>1. PICK n \in answered : n \in 1..5
      OBVIOUS
    <3>2. n = 1 \/ n = 2 \/ n = 3 \/ n = 4 \/ n = 5
      BY <3>1
    <3> QED
      BY <3>2
  <2> QED
    BY <2>1, <2>2, <2>3, <2>4, <2>5, <2>6
<1> QED
  BY <1>1 DEF Min

\* What FirstOf answers: one of the names, the first one if its question is answered.
LEMMA FirstOfNames ==
  ASSUME NEW questions, NEW names, NEW asked \in 1..5, DOMAIN questions = 1..asked
  PROVE  /\ FirstOf(questions, names) \in {"undefined"} \cup {names[n] : n \in 1..asked}
         /\ \A n \in 1..asked : questions[n] \cap agt # {} =>
              FirstOf(questions, names) \in {names[k] : k \in 1..n}
<1> DEFINE answered == {n \in DOMAIN questions : questions[n] \cap agt # {}}
<1>1. answered \in SUBSET (1..5) /\ answered \subseteq 1..asked
  OBVIOUS
<1>2. answered # {} => Min(answered) \in answered /\ \A n \in answered : Min(answered) <= n
  BY <1>1, LeastAnswer
<1>3. FirstOf(questions, names) = IF answered = {} THEN "undefined" ELSE names[Min(answered)]
  BY DEF FirstOf
<1>4. ASSUME NEW n \in 1..asked, questions[n] \cap agt # {}
      PROVE  FirstOf(questions, names) \in {names[k] : k \in 1..n}
  <2>1. n \in answered
    BY <1>4
  <2>2. Min(answered) \in 1..n
    BY <1>1, <1>2, <2>1
  <2> QED
    BY <1>3, <2>1, <2>2
<1> HIDE DEF answered
<1> QED
  BY <1>1, <1>2, <1>3, <1>4

LEMMA OtherBrowsers ==
  ASSUME agt \cap {"opera", "khtml", "applewebkit"} # {}
  PROVE  browserVer # "IE6"
<1>1. browserType \in {"Opera", "Safari", "Konqueror"}
  <2> DEFINE questions == <<{"opera"}, {"applewebkit"}, {"khtml"}, {"msie"}, {"gecko"}>>
             names == <<"Opera", "Safari", "Konqueror", "IE", "Firefox">>
  <2>1. DOMAIN questions = 1..5 /\ 5 \in 1..5
    OBVIOUS
  <2>2. \E n \in 1..3 : questions[n] \cap agt # {}
    <3>1. CASE "opera" \in agt
      BY <3>1
    <3>2. CASE "applewebkit" \in agt
      BY <3>2
    <3>3. CASE "khtml" \in agt
      BY <3>3
    <3> QED
      BY <3>1, <3>2, <3>3
  <2>3. PICK n \in 1..3 : questions[n] \cap agt # {}
    BY <2>2
  <2>4. FirstOf(questions, names) \in {names[k] : k \in 1..n}
    BY <2>1, <2>3, FirstOfNames
  <2>5. {names[k] : k \in 1..n} \subseteq {"Opera", "Safari", "Konqueror"}
    OBVIOUS
  <2> QED
    BY <2>4, <2>5 DEF browserType
<1>2. CASE browserType = "Opera"
  <2> DEFINE questions == <<{"opera 7", "opera/7"}, {"opera 8", "opera/8"}, {"opera 9", "opera/9"}>>
             names == <<"Opera7", "Opera8", "Opera9">>
  <2>1. DOMAIN questions = 1..3 /\ 3 \in 1..5
    OBVIOUS
  <2>2. FirstOf(questions, names) \in {"undefined"} \cup {names[n] : n \in 1..3}
    BY <2>1, FirstOfNames
  <2>3. {names[n] : n \in 1..3} \subseteq {"Opera7", "Opera8", "Opera9"}
    OBVIOUS
  <2>4. browserVer = FirstOf(questions, names)
    BY <1>2 DEF browserVer
  <2> QED
    BY <2>2, <2>3, <2>4
<1>3. CASE browserType = "Safari"
  <2> DEFINE questions == <<{"version/3"}, {"safari/4"}>>
             names == <<"Safari3", "Safari2">>
  <2>1. DOMAIN questions = 1..2 /\ 2 \in 1..5
    OBVIOUS
  <2>2. FirstOf(questions, names) \in {"undefined"} \cup {names[n] : n \in 1..2}
    BY <2>1, FirstOfNames
  <2>3. {names[n] : n \in 1..2} \subseteq {"Safari3", "Safari2"}
    OBVIOUS
  <2>4. browserVer = FirstOf(questions, names)
    BY <1>3 DEF browserVer
  <2> QED
    BY <2>2, <2>3, <2>4
<1>4. CASE browserType = "Konqueror"
  BY <1>4 DEF browserVer
<1> QED
  BY <1>1, <1>2, <1>3, <1>4

\* After NDDoResize every box fits the window: both loops together forget the old widths.
LEMMA ResizedFits == Resized = [box \in Box |-> Max({docWidth, Narrow})]
<1> DEFINE narrowed == [box \in Box |-> Narrow]
<1>1. ASSUME NEW box \in Box PROVE OffsetWidth(Parent[box], narrowed) = Max({docWidth, Narrow})
  <2>1. {narrowed[b] : b \in {b \in Box : Parent[b] = Parent[box]}} = {Narrow}
    OBVIOUS
  <2>2. {docWidth} \cup {Narrow} = {docWidth, Narrow}
    OBVIOUS
  <2> QED
    BY <2>1, <2>2 DEF OffsetWidth
<1> QED
  BY <1>1 DEF Resized

\* Only Internet Explorer 6 hears of resizes; until its handler is set the boxes are as
\* they were, and from then on they fit or a timer is due.
BoxInv ==
  /\ resizeTimer \in BOOLEAN /\ resizes = (IF resizeTimer THEN 1 ELSE 0)
  /\ onresize \in BOOLEAN
  /\ onresize => loaded /\ browserVer = "IE6"
  /\ ~onresize => ~resizeTimer /\ width = [box \in Box |-> Unset]
  /\ (onresize /\ ~resizeTimer) => width = [box \in Box |-> Max({docWidth, Narrow})]

LEMMA BoxInvInit == Init => BoxInv
BY DEF Init, BoxInit, BoxInv

LEMMA BoxInvStep == BoxInv /\ [Next]_vars => BoxInv'
<1> SUFFICES ASSUME BoxInv, [Next]_vars PROVE BoxInv'
  OBVIOUS
<1>1. \/ NDOnLoad /\ UNCHANGED docWidth
      \/ ResizeTimer /\ UNCHANGED docWidth
      \/ OnResize
      \/ UNCHANGED <<docWidth, boxVars>>
  BY DEF Next, vars, MenuStep, ContentStep, FilesStep, ResultsStep, Resize
<1>2. agt' = agt => browserVer' = browserVer
  BY DEF browserVer, browserType, FirstOf
<1>3. CASE NDOnLoad /\ UNCHANGED docWidth
  <2>1. CASE browserVer = "IE6" /\ Box # {}
    <3>1. width' = [box \in Box |-> Max({docWidth', Narrow})] /\ resizeTimer' = FALSE
      BY <1>3, <2>1, ResizedFits DEF NDOnLoad, NDDoResize
    <3>2. onresize' = TRUE /\ loaded' = TRUE /\ browserVer' = "IE6" /\ resizes' = resizes
      BY <1>2, <1>3, <2>1 DEF NDOnLoad
    <3>3. resizes = 0
      BY <1>3 DEF NDOnLoad, BoxInv
    <3> QED
      BY <3>1, <3>2, <3>3 DEF BoxInv
  <2>2. CASE ~(browserVer = "IE6" /\ Box # {})
    BY <1>2, <1>3, <2>2 DEF NDOnLoad, BoxInv
  <2> QED
    BY <2>1, <2>2
<1>4. CASE ResizeTimer /\ UNCHANGED docWidth
  <2>1. width' = [box \in Box |-> Max({docWidth', Narrow})] /\ resizeTimer' = FALSE
    BY <1>4, ResizedFits DEF ResizeTimer, NDDoResize
  <2>2. resizes' = 0 /\ onresize /\ onresize' = onresize /\ loaded' = loaded /\ agt' = agt
    BY <1>4 DEF ResizeTimer, BoxInv
  <2> QED
    BY <1>2, <2>1, <2>2 DEF BoxInv
<1>5. CASE OnResize
  <2>1. UNCHANGED <<agt, loaded, width, onresize>>
    BY <1>5 DEF OnResize
  <2>2. CASE onresize
    <3>1. resizeTimer' = TRUE /\ resizes' = 1
      BY <1>5, <2>2 DEF OnResize, NDOnResize, BoxInv
    <3> QED
      BY <1>2, <2>1, <2>2, <3>1 DEF BoxInv
  <2>3. CASE ~onresize
    BY <1>2, <1>5, <2>1, <2>3 DEF OnResize, BoxInv
  <2> QED
    BY <2>2, <2>3
<1>6. CASE UNCHANGED <<docWidth, boxVars>>
  BY <1>2, <1>6 DEF boxVars, BoxInv
<1> QED
  BY <1>1, <1>3, <1>4, <1>5, <1>6

\* The blockquotes of Internet Explorer 6 fit the window whenever no resize is pending; a
\* browser that only bears its name has its blockquotes left alone.
THEOREM BoxesFit == Spec => []SettledBoxesFit
<1>1. ASSUME BoxInv PROVE SettledBoxesFit
  <2>1. onresize /\ resizes = 0 => \A box \in Box : Fits(box)
    BY <1>1 DEF BoxInv, Fits
  <2>2. ASSUME agt \cap {"opera", "khtml", "applewebkit"} # {}
        PROVE  \A box \in Box : width[box] = Unset
    <3>1. ~onresize
      BY <1>1, <2>2, OtherBrowsers DEF BoxInv
    <3> QED
      BY <1>1, <3>1 DEF BoxInv
  <2> QED
    BY <2>1, <2>2 DEF SettledBoxesFit
<1> QED
  BY <1>1, BoxInvInit, BoxInvStep, PTL DEF Spec

-----------------------------------------------------------------------------
(* Induction over the elements of a document. *)

\* Every non-empty set of natural numbers has a least element.
LEMMA LeastNat ==
  ASSUME NEW S, S \subseteq Nat, S # {}
  PROVE  \E m \in S : \A k \in S : m <= k
<1> DEFINE R == OpToRel(<, Nat)
<1>1. IsWellFoundedOn(R, Nat)
  BY NatLessThanWellFounded
<1>2. \A j, k \in Nat : j < k => <<j, k>> \in R
  BY DEF OpToRel
<1> HIDE DEF R
<1>3. PICK m \in S : \A k \in S : <<k, m>> \notin R
  BY <1>1, WFMin
<1>4. \A k \in S : ~(k < m)
  BY <1>2, <1>3, Zenon
<1> QED
  BY <1>4

\* Induction up to n, with a set for the numbers that have the property.
LEMMA Reaches ==
  ASSUME NEW S, NEW n \in Nat, 0 \in S, \A k \in 0..(n - 1) : k \in S => k + 1 \in S
  PROVE  \A k \in 0..n : k \in S
<1> DEFINE Out == {k \in 0..n : k \notin S}
<1> SUFFICES ASSUME Out # {} PROVE FALSE
  OBVIOUS
<1>1. PICK m \in Out : \A k \in Out : m <= k
  <2>1. Out \subseteq Nat
    OBVIOUS
  <2> HIDE DEF Out
  <2> QED
    BY <2>1, LeastNat
<1>2. m # 0 /\ m - 1 \in 0..(n - 1)
  BY <1>1
<1>3. m - 1 \in S
  BY <1>1, <1>2
<1> QED
  BY <1>1, <1>2, <1>3
\* A bounded set of numbers has a minimum and a maximum.
LEMMA MinAndMax ==
  ASSUME NEW n \in Nat, NEW S \in SUBSET (0..n), S # {}
  PROVE  /\ Min(S) \in S /\ \A k \in S : Min(S) <= k
         /\ Max(S) \in S /\ \A k \in S : k <= Max(S)
<1>1. \E k \in S : \A j \in S : k <= j
  <2>1. S \subseteq Nat
    OBVIOUS
  <2> QED
    BY <2>1, LeastNat
<1>2. \E k \in S : \A j \in S : k >= j
  <2> DEFINE Rests == {m \in 0..n : n - m \in S}
  <2>1. Rests \subseteq Nat /\ Rests # {}
    <3>1. PICK k \in S : TRUE
      OBVIOUS
    <3>2. n - k \in Rests
      OBVIOUS
    <3>3. Rests \subseteq Nat
      OBVIOUS
    <3> QED
      BY <3>2, <3>3
  <2>2. PICK m \in Rests : \A j \in Rests : m <= j
    <3> HIDE DEF Rests
    <3> QED
      BY <2>1, LeastNat
  <2>3. n - m \in S
    OBVIOUS
  <2>4. \A k \in S : n - k \in Rests /\ k \in 0..n
    OBVIOUS
  <2>5. \A k \in S : n - m >= k
    BY <2>2, <2>4
  <2> QED
    BY <2>3, <2>5
<1>3. Min(S) \in S /\ \A k \in S : Min(S) <= k
  BY <1>1 DEF Min
<1>4. Max(S) \in S /\ \A k \in S : Max(S) >= k
  BY <1>2 DEF Max
<1> QED
  BY <1>3, <1>4

-----------------------------------------------------------------------------
(* Toggle: the inductive invariant. *)

\* A document: every element but the first has a parent, which comes before it.
IsDocument ==
  /\ parentNode[1] = 0
  /\ \A e \in 2..N : parentNode[e] \in 1..(e - 1)

\* Document order: e begins before f does.
Precedes(e, f) ==
  \/ e \in Ancestors(f)
  \/ \E a \in Below[e], b \in Below[f] : parentNode[a] = parentNode[b] /\ a < b

\* The walk has passed an element.
Passed(e) == element = parentElement \/ (element # 0 /\ Precedes(e, element))

\* The walk goes through the elements it is to reach in document order, and has turned
\* the indexes among those it has passed.
WalkInv ==
  /\ ToggleTypeOK /\ IsDocument
  /\ parentElement # 0 =>
       /\ element \in Reached(parentElement) \cup {0, parentElement}
       /\ element = 0 => firstChild(parentElement) = 0
       /\ \A e \in Element :
            display[e] = IF e \in Reached(parentElement) /\ kind[e] = "ISubIndex" /\ Passed(e)
                           THEN (IF start[e] = "block" THEN "none" ELSE "block")
                           ELSE start[e]

-----------------------------------------------------------------------------
(* Documents as trees. *)

Document == IsDocument /\ parentNode \in [Element -> 0..N]

LEMMA Parents ==
  ASSUME Document
  PROVE  /\ N \in Nat /\ 1 \in Element
         /\ \A e \in Element :
              parentNode[e] \in 0..N /\ parentNode[e] < e /\ (parentNode[e] = 0 <=> e = 1)
<1>1. N \in Nat /\ N >= 2
  BY ToggleAssumption
<1>2. \A e \in Element : e = 1 \/ e \in 2..N
  BY <1>1 DEF Element
<1>3. 1 \in Element
  BY <1>1 DEF Element
<1>4. \A e \in 2..N : parentNode[e] \in 1..(e - 1)
  BY DEF Document, IsDocument
<1>5. parentNode[1] = 0 /\ \A e \in Element : parentNode[e] \in 0..N
  BY DEF Document, IsDocument
<1> QED
  BY <1>1, <1>2, <1>3, <1>4, <1>5

\* The recursion of Below, step by step.
LEMMA BelowSteps ==
  ASSUME Document
  PROVE  Below[0] = {} /\ \A e \in Element : Below[e] = {e} \cup Below[parentNode[e]]
<1> DEFINE Upto(g, k) == g = [e \in 0..k |-> IF e = 0 THEN {} ELSE {e} \cup g[parentNode[e]]]
           Defined == {k \in Nat : \E g : Upto(g, k)}
<1>1. 0 \in Defined
  <2>1. Upto([e \in 0..0 |-> {}], 0)
    OBVIOUS
  <2> QED
    BY <2>1
<1>2. ASSUME NEW k \in 0..(N - 1), k \in Defined
      PROVE  k + 1 \in Defined
  <2>1. PICK g : Upto(g, k)
    BY <1>2
  <2>2. \A e \in 0..(k + 1) : e # 0 => parentNode[e] \in 0..k /\ parentNode[e] < e
    BY Parents DEF Element
  <2> DEFINE h == [e \in 0..(k + 1) |-> IF e = k + 1 THEN {k + 1} \cup g[parentNode[k + 1]] ELSE g[e]]
  <2>3. \A e \in 0..k : h[e] = g[e]
    OBVIOUS
  <2>4. k + 1 # 0 /\ h[k + 1] = {k + 1} \cup h[parentNode[k + 1]]
    BY <2>2, <2>3
  <2>5. \A e \in 0..k : h[e] = IF e = 0 THEN {} ELSE {e} \cup h[parentNode[e]]
    <3> SUFFICES ASSUME NEW e \in 0..k
                 PROVE  h[e] = IF e = 0 THEN {} ELSE {e} \cup h[parentNode[e]]
      OBVIOUS
    <3>1. h[e] = g[e] /\ (e # 0 => h[parentNode[e]] = g[parentNode[e]])
      BY <2>2, <2>3
    <3>2. g[e] = IF e = 0 THEN {} ELSE {e} \cup g[parentNode[e]]
      BY <2>1
    <3> HIDE DEF h
    <3> QED
      BY <3>1, <3>2
  <2>6. h = [e \in 0..(k + 1) |-> h[e]]
    OBVIOUS
  <2> HIDE DEF h
  <2>7. \A e \in 0..(k + 1) : h[e] = IF e = 0 THEN {} ELSE {e} \cup h[parentNode[e]]
    <3>1. \A e \in 0..(k + 1) : e = k + 1 \/ e \in 0..k
      OBVIOUS
    <3> QED
      BY <2>4, <2>5, <3>1
  <2>8. Upto(h, k + 1)
    BY <2>6, <2>7
  <2> QED
    BY <2>8
<1>3. \E g : Upto(g, N)
  <2> HIDE DEF Defined
  <2>1. \A k \in 0..(N - 1) : k \in Defined => k + 1 \in Defined
    BY <1>2
  <2>2. N \in Nat /\ N \in 0..N
    BY Parents
  <2>3. \A k \in 0..N : k \in Defined
    BY <1>1, <2>1, <2>2, Reaches
  <2> QED
    BY <2>2, <2>3 DEF Defined
<1>4. Upto(Below, N)
  <2>1. Below = CHOOSE g : Upto(g, N)
    BY DEF Below
  <2> HIDE DEF Upto
  <2> QED
    BY <1>3, <2>1
<1>5. \A e \in 0..N : Below[e] = IF e = 0 THEN {} ELSE {e} \cup Below[parentNode[e]]
  BY <1>4
<1>6. 0 \in 0..N /\ \A e \in Element : e \in 0..N /\ e # 0
  BY Parents DEF Element
<1> QED
  BY <1>5, <1>6

\* It is that of the document.
LEMMA BelowKept == UNCHANGED parentNode => Below' = Below
BY DEF Below

\* Induction from the parents to the children.
LEMMA TreeInduction ==
  ASSUME Document, NEW S,
         \A e \in Element : parentNode[e] = 0 \/ parentNode[e] \in S => e \in S
  PROVE  \A e \in Element : e \in S
<1> DEFINE Out == Element \ S
<1> SUFFICES ASSUME Out # {} PROVE FALSE
  OBVIOUS
<1>1. PICK e \in Out : \A f \in Out : e <= f
  <2>1. Out \subseteq Nat
    BY Parents DEF Element
  <2> HIDE DEF Out
  <2> QED
    BY <2>1, LeastNat
<1>2. parentNode[e] \in 0..N /\ parentNode[e] < e /\ e \in Element
  BY Parents
<1>3. parentNode[e] = 0 \/ (parentNode[e] \in Element /\ ~(e <= parentNode[e]))
  BY <1>2, Parents DEF Element
<1>4. parentNode[e] = 0 \/ parentNode[e] \in S
  BY <1>1, <1>3
<1> QED
  BY <1>2, <1>4

\* An element is below itself, below the first one, and below none that comes after it.
LEMMA BelowRange ==
  ASSUME Document
  PROVE  \A e \in Element : e \in Below[e] /\ 1 \in Below[e] /\ \A a \in Below[e] : a \in 1..e
<1> DEFINE S == {e \in Element : 1 \in Below[e] /\ \A a \in Below[e] : a \in 1..e}
<1>1. ASSUME NEW e \in Element, parentNode[e] = 0 \/ parentNode[e] \in S
      PROVE  e \in S
  <2>1. e \in 1..e /\ Below[e] = {e} \cup Below[parentNode[e]]
    BY BelowSteps, Parents DEF Element
  <2>2. CASE parentNode[e] = 0
    <3>1. e = 1 /\ Below[e] = {e}
      BY <2>1, <2>2, BelowSteps, Parents
    <3> QED
      BY <2>1, <3>1
  <2>3. CASE parentNode[e] \in S
    <3>1. \A a \in 1..parentNode[e] : a \in 1..e
      BY Parents DEF Element
    <3>2. 1 \in Below[parentNode[e]] /\ \A a \in Below[parentNode[e]] : a \in 1..parentNode[e]
      BY <2>3
    <3> QED
      BY <2>1, <3>1, <3>2
  <2> QED
    BY <1>1, <2>2, <2>3
<1>2. \A e \in Element : e \in S
  <2> HIDE DEF S
  <2> QED
    BY <1>1, TreeInduction
<1> QED
  BY <1>2, BelowSteps

LEMMA AncestorsBelow ==
  ASSUME Document, NEW e \in Element
  PROVE  /\ Ancestors(e) = Below[parentNode[e]]
         /\ \A a \in Ancestors(e) : a \in Element /\ a < e /\ a \in Below[e] /\ parentNode[e] \in Element
<1>1. e \notin Below[parentNode[e]]
  <2>1. CASE parentNode[e] = 0
    BY <2>1, BelowSteps
  <2>2. CASE parentNode[e] # 0
    <3>1. parentNode[e] \in Element /\ e \notin 1..parentNode[e]
      BY <2>2, Parents DEF Element
    <3> QED
      BY <3>1, BelowRange
  <2> QED
    BY <2>1, <2>2
<1>2. Ancestors(e) = Below[parentNode[e]]
  BY <1>1, BelowSteps DEF Ancestors
<1>3. ASSUME NEW a \in Ancestors(e)
      PROVE  a \in Element /\ a < e /\ a \in Below[e] /\ parentNode[e] \in Element
  <2>1. a \in Below[e] /\ a # e /\ a \in 1..e
    BY BelowRange DEF Ancestors
  <2>2. parentNode[e] # 0
    BY <1>2, BelowSteps
  <2> QED
    BY <2>1, <2>2, Parents DEF Element
<1> QED
  BY <1>2, <1>3

LEMMA BelowTransitive ==
  ASSUME Document
  PROVE  \A e \in Element : \A a \in Below[e] : a \in Element /\ Below[a] \subseteq Below[e]
<1> DEFINE S == {e \in Element : \A a \in Below[e] : Below[a] \subseteq Below[e]}
<1>1. ASSUME NEW e \in Element, parentNode[e] = 0 \/ parentNode[e] \in S
      PROVE  e \in S
  <2>1. Below[e] = {e} \cup Below[parentNode[e]] /\ Below[0] = {}
    BY BelowSteps
  <2> QED
    BY <1>1, <2>1
<1>2. \A e \in Element : e \in S
  <2> HIDE DEF S
  <2> QED
    BY <1>1, TreeInduction
<1>3. \A e \in Element : \A a \in 1..e : a \in Element
  BY Parents DEF Element
<1> QED
  BY <1>2, <1>3, BelowRange

\* Those that an element is below follow each other.
LEMMA BelowChain ==
  ASSUME Document
  PROVE  \A e \in Element : \A a, b \in Below[e] : a <= b => a \in Below[b]
<1> DEFINE S == {e \in Element : \A a, b \in Below[e] : a <= b => a \in Below[b]}
<1>1. ASSUME NEW e \in Element, parentNode[e] = 0 \/ parentNode[e] \in S
      PROVE  e \in S
  <2> SUFFICES ASSUME NEW a \in Below[e], NEW b \in Below[e], a <= b
               PROVE  a \in Below[b]
    OBVIOUS
  <2>1. Below[e] = {e} \cup Below[parentNode[e]] /\ Below[0] = {}
    BY BelowSteps
  <2>2. CASE b = e
    BY <2>2
  <2>3. CASE b # e
    <3>1. b \in Below[parentNode[e]] /\ parentNode[e] \in S
      BY <1>1, <2>1, <2>3
    <3>2. b \in 1..parentNode[e] /\ parentNode[e] < e
      BY <3>1, BelowRange, Parents
    <3>3. a # e
      BY <3>2, Parents DEF Element
    <3> QED
      BY <2>1, <3>1, <3>3
  <2> QED
    BY <2>2, <2>3
<1>2. \A e \in Element : e \in S
  <2> HIDE DEF S
  <2> QED
    BY <1>1, TreeInduction
<1> QED
  BY <1>2

LEMMA ChildToward ==
  ASSUME Document
  PROVE  \A e \in Element : \A a \in Ancestors(e) : \E c \in Below[e] : parentNode[c] = a
<1> DEFINE S == {e \in Element : \A a \in Ancestors(e) : \E c \in Below[e] : parentNode[c] = a}
<1>1. ASSUME NEW e \in Element, parentNode[e] = 0 \/ parentNode[e] \in S
      PROVE  e \in S
  <2> SUFFICES ASSUME NEW a \in Ancestors(e)
               PROVE  \E c \in Below[e] : parentNode[c] = a
    OBVIOUS
  <2>1. a \in Below[parentNode[e]] /\ parentNode[e] \in S
    BY <1>1, AncestorsBelow, BelowSteps
  <2>2. CASE a = parentNode[e]
    BY <2>2, BelowRange
  <2>3. CASE a # parentNode[e]
    <3>1. PICK c \in Below[parentNode[e]] : parentNode[c] = a
      BY <2>1, <2>3 DEF Ancestors
    <3> QED
      BY <3>1, BelowSteps
  <2> QED
    BY <2>2, <2>3
<1>2. \A e \in Element : e \in S
  <2> HIDE DEF S
  <2> QED
    BY <1>1, TreeInduction
<1> QED
  BY <1>2

\* No element is below two of one parent.
LEMMA SiblingsApart ==
  ASSUME Document, NEW e \in Element, NEW a \in Below[e], NEW b \in Below[e],
         parentNode[a] = parentNode[b]
  PROVE  a = b
<1>1. ASSUME NEW f \in Below[e], NEW g \in Below[e], parentNode[f] = parentNode[g], f < g
      PROVE  FALSE
  <2>1. f \in Element /\ g \in Element
    BY BelowTransitive
  <2>2. f \in Nat /\ g \in Nat /\ f <= g /\ f # g
    BY <1>1, <2>1, Parents DEF Element
  <2>3. f \in Below[g]
    BY <2>2, BelowChain
  <2>4. f \in Ancestors(g) /\ f \in Below[parentNode[f]]
    BY <1>1, <2>1, <2>2, <2>3, AncestorsBelow DEF Ancestors
  <2>5. f \in Ancestors(f)
    BY <2>1, <2>4, AncestorsBelow
  <2> QED
    BY <2>5 DEF Ancestors
<1>2. a \in Nat /\ b \in Nat
  BY BelowTransitive, Parents DEF Element
<1>3. ~(a < b) /\ ~(b < a)
  BY <1>1
<1> QED
  BY <1>2, <1>3

\* Of two elements one is below the other, or they are below different children of one.
LEMMA Branches ==
  ASSUME Document, NEW e \in Element, NEW f \in Element
  PROVE  \/ e \in Below[f]
         \/ f \in Below[e]
         \/ \E a \in Below[e], b \in Below[f] : parentNode[a] = parentNode[b] /\ a # b
<1> SUFFICES ASSUME e \notin Below[f], f \notin Below[e]
             PROVE  \E a \in Below[e], b \in Below[f] : parentNode[a] = parentNode[b] /\ a # b
  OBVIOUS
<1> DEFINE Common == Below[e] \cap Below[f]
           c == Max(Common)
<1>1. Common \in SUBSET (0..N) /\ Common # {} /\ N \in Nat
  <2>1. \A a \in Common : a \in Element
    BY BelowTransitive
  <2>2. \A a \in Element : a \in 0..N
    BY Parents DEF Element
  <2> QED
    BY <2>1, <2>2, BelowRange, Parents
<1>2. c \in Common /\ \A a \in Common : a <= c
  <2> HIDE DEF Common
  <2> QED
    BY <1>1, MinAndMax
<1> HIDE DEF c
<1>3. c \in Ancestors(e) /\ c \in Ancestors(f)
  BY <1>2 DEF Ancestors
<1>4. PICK a \in Below[e], b \in Below[f] : parentNode[a] = c /\ parentNode[b] = c
  BY <1>3, ChildToward
<1>5. a # b
  <2>1. a \in Element /\ c < a /\ c \in Nat /\ a \in Nat
    BY <1>4, <1>3, BelowTransitive, Parents, AncestorsBelow DEF Element
  <2>2. a \notin Common
    BY <1>2, <2>1
  <2> QED
    BY <2>2
<1> QED
  BY <1>4, <1>5

-----------------------------------------------------------------------------
(* Document order. *)

\* firstChild and nextSibling, as the document has them.
LEMMA FirstChild ==
  ASSUME Document, NEW e \in Element
  PROVE  /\ firstChild(e) # 0 =>
              /\ firstChild(e) \in Element /\ parentNode[firstChild(e)] = e
              /\ \A c \in Element : parentNode[c] = e => firstChild(e) <= c
         /\ firstChild(e) = 0 => \A c \in Element : parentNode[c] # e
<1> DEFINE Children == {c \in Element : parentNode[c] = e}
<1>1. Children \in SUBSET (0..N) /\ N \in Nat /\ 0 \notin Children
  BY Parents DEF Element
<1>2. firstChild(e) = IF Children = {} THEN 0 ELSE Min(Children)
  BY DEF firstChild, FirstOrNone
<1>3. Children # {} => Min(Children) \in Children /\ \A c \in Children : Min(Children) <= c
  <2> HIDE DEF Children
  <2> QED
    BY <1>1, MinAndMax
<1> QED
  BY <1>1, <1>2, <1>3

LEMMA NextSibling ==
  ASSUME Document, NEW e \in Element
  PROVE  /\ nextSibling(e) # 0 =>
              /\ nextSibling(e) \in Element /\ parentNode[nextSibling(e)] = parentNode[e]
              /\ e < nextSibling(e)
              /\ \A s \in Element : parentNode[s] = parentNode[e] /\ e < s => nextSibling(e) <= s
         /\ nextSibling(e) = 0 => \A s \in Element : ~(parentNode[s] = parentNode[e] /\ e < s)
<1> DEFINE Later == {s \in Element : parentNode[s] = parentNode[e] /\ s > e}
<1>1. Later \in SUBSET (0..N) /\ N \in Nat /\ 0 \notin Later
  BY Parents DEF Element
<1>2. nextSibling(e) = IF Later = {} THEN 0 ELSE Min(Later)
  BY DEF nextSibling, FirstOrNone
<1>3. Later # {} => Min(Later) \in Later /\ \A s \in Later : Min(Later) <= s
  <2> HIDE DEF Later
  <2> QED
    BY <1>1, MinAndMax
<1>4. \A s \in Element : s > e <=> e < s
  BY Parents DEF Element
<1> QED
  BY <1>1, <1>2, <1>3, <1>4

LEMMA NotBeforeItself ==
  ASSUME Document, NEW e \in Element
  PROVE  ~Precedes(e, e)
<1>1. \A a \in Below[e] : a \in Nat
  BY BelowTransitive, Parents DEF Element
<1>2. \A a, b \in Below[e] : ~(parentNode[a] = parentNode[b] /\ a < b)
  BY <1>1, SiblingsApart
<1> QED
  BY <1>2 DEF Precedes, Ancestors

\* Going down, an element follows its parent.
LEMMA DownOrder ==
  ASSUME Document, NEW e \in Element, firstChild(e) # 0, NEW x \in Element
  PROVE  Precedes(x, firstChild(e)) <=> x = e \/ Precedes(x, e)
<1> DEFINE c == firstChild(e)
<1>1. /\ c \in Element /\ parentNode[c] = e
      /\ \A b \in Element : parentNode[b] = e => c <= b
  BY FirstChild
<1> HIDE DEF c
<1>2. Ancestors(c) = Below[e] /\ Below[c] = {c} \cup Below[e]
  BY <1>1, AncestorsBelow, BelowSteps
<1>3. x \in Below[e] <=> x = e \/ x \in Ancestors(e)
  BY BelowRange DEF Ancestors
<1>4. \A a \in Below[x] : ~(parentNode[a] = parentNode[c] /\ a < c)
  <2>1. \A a \in Below[x] : a \in Element
    BY BelowTransitive
  <2>2. \A a \in Element : ~(c <= a /\ a < c)
    BY <1>1, Parents DEF Element
  <2> QED
    BY <1>1, <2>1, <2>2
<1> QED
  BY <1>2, <1>3, <1>4 DEF Precedes, c

\* What the walk is to reach from an element lies below it, and whatever is between the
\* two is a DIV.
LEMMA ReachedFacts ==
  ASSUME Document, NEW id \in Element, NEW e \in Reached(id)
  PROVE  /\ e \in Element /\ id \in Ancestors(e) /\ id < e
         /\ \A a \in Ancestors(e) : id < a => IsDIV(a)
<1>1. e \in Element /\ id \in Ancestors(e)
  BY DEF Reached
<1>2. id < e
  BY <1>1, AncestorsBelow
<1>3. ASSUME NEW a \in Ancestors(e), id < a
      PROVE  IsDIV(a)
  <2>1. a \in Nat /\ id \in Nat /\ a # id
    BY <1>1, <1>3, AncestorsBelow, Parents DEF Element
  <2>2. a \notin Ancestors(id)
    <3>1. \A b \in Ancestors(id) : b \in Nat /\ b < id
      BY AncestorsBelow, Parents DEF Element
    <3> QED
      BY <1>3, <2>1, <3>1
  <2> QED
    BY <2>1, <2>2 DEF Reached
<1> QED
  BY <1>1, <1>2, <1>3

LEMMA IsReached ==
  ASSUME Document, NEW id \in Element, NEW e \in Element, id \in Ancestors(e),
         \A a \in Ancestors(e) : id < a => IsDIV(a)
  PROVE  e \in Reached(id)
<1> SUFFICES ASSUME NEW a \in Ancestors(e), a # id, a \notin Ancestors(id)
             PROVE  IsDIV(a)
  BY DEF Reached
<1>1. a \in Nat /\ id \in Nat /\ a \in Below[e] /\ id \in Below[e]
  BY AncestorsBelow, Parents DEF Element
<1>2. CASE a < id
  <2>1. a \in Below[id]
    BY <1>1, <1>2, BelowChain
  <2> QED
    BY <2>1 DEF Ancestors
<1>3. CASE id < a
  BY <1>3
<1> QED
  BY <1>1, <1>2, <1>3

\* The walk has no way down from e.
DeadEnd(e) == ~(IsDIV(e) /\ firstChild(e) # 0)

\* Nothing that is to be reached lies below a dead end.
LEMMA NothingBelowDeadEnd ==
  ASSUME Document, NEW id \in Element, NEW e \in Reached(id), DeadEnd(e), NEW x \in Reached(id)
  PROVE  e \notin Ancestors(x)
<1> SUFFICES ASSUME e \in Ancestors(x) PROVE FALSE
  OBVIOUS
<1>1. IsDIV(e) /\ e \in Element /\ x \in Element
  BY ReachedFacts
<1>2. PICK c \in Below[x] : parentNode[c] = e
  BY <1>1, ChildToward
<1>3. c \in Element
  BY <1>1, <1>2, BelowTransitive
<1> QED
  BY <1>1, <1>2, <1>3, FirstChild DEF DeadEnd

\* Between an element g that has both below it and a dead end e nothing remains to be
\* reached, if none on the way from g to e has a next sibling.
LEMMA NothingRemains ==
  ASSUME Document, NEW id \in Element, NEW e \in Reached(id), DeadEnd(e),
         NEW g \in Below[e], \A b \in Below[e] : g < b => nextSibling(b) = 0,
         NEW x \in Reached(id), g \in Below[x]
  PROVE  x = e \/ Precedes(x, e)
<1>1. e \in Element /\ x \in Element
  BY ReachedFacts
<1>2. CASE x \in Below[e]
  BY <1>2 DEF Precedes, Ancestors
<1>3. CASE e \in Below[x]
  BY <1>3, NothingBelowDeadEnd DEF Ancestors
<1>4. ASSUME NEW a \in Below[x], NEW b \in Below[e], parentNode[a] = parentNode[b], a # b
      PROVE  Precedes(x, e)
  <2>1. a \in Element /\ b \in Element /\ a \in Nat /\ b \in Nat /\ g \in Nat
    BY <1>1, BelowTransitive, Parents DEF Element
  <2>2. CASE a < b
    BY <1>4, <2>2 DEF Precedes
  <2>3. CASE b < a
    <3>1. nextSibling(b) # 0
      BY <1>4, <2>1, <2>3, NextSibling
    <3>2. b <= g
      BY <2>1, <3>1
    <3>3. b \in Below[g] /\ Below[g] \subseteq Below[x]
      BY <1>1, <3>2, BelowChain, BelowTransitive
    <3> QED
      BY <1>1, <1>4, <3>3, SiblingsApart
  <2> QED
    BY <1>4, <2>1, <2>2, <2>3
<1> QED
  BY <1>1, <1>2, <1>3, <1>4, Branches

\* Going across, from e or from an ancestor g whose last part e closes, the next sibling
\* of g follows e.
LEMMA AcrossOrder ==
  ASSUME Document, NEW id \in Element, NEW e \in Reached(id), DeadEnd(e),
         NEW g \in Below[e], \A b \in Below[e] : g < b => nextSibling(b) = 0,
         id \in Ancestors(g), nextSibling(g) # 0
  PROVE  /\ nextSibling(g) \in Reached(id)
         /\ \A x \in Reached(id) :
              Precedes(x, nextSibling(g)) <=> x = e \/ Precedes(x, e)
<1> DEFINE s == nextSibling(g)
<1>1. e \in Element /\ g \in Element /\ g <= e
  BY ReachedFacts, BelowTransitive, BelowRange DEF Element
<1>2. /\ s \in Element /\ parentNode[s] = parentNode[g] /\ g < s
      /\ \A f \in Element : parentNode[f] = parentNode[g] /\ g < f => s <= f
  BY <1>1, NextSibling
<1> HIDE DEF s
<1>3. Ancestors(s) = Ancestors(g) /\ Ancestors(g) = Below[parentNode[g]]
  BY <1>1, <1>2, AncestorsBelow
<1>4. \A a \in Ancestors(g) : a \in Ancestors(e) /\ a \in Below[g] /\ a < g
  <2> SUFFICES ASSUME NEW a \in Ancestors(g)
               PROVE  a \in Ancestors(e) /\ a \in Below[g] /\ a < g
    OBVIOUS
  <2>1. a \in Below[g] /\ a < g /\ a \in Element
    BY <1>1, AncestorsBelow
  <2>2. a \in Below[e] /\ a # e
    BY <1>1, <2>1, BelowTransitive, Parents DEF Element
  <2> QED
    BY <2>1, <2>2 DEF Ancestors
<1>5. s \in Reached(id)
  BY <1>2, <1>3, <1>4, ReachedFacts, IsReached
<1>6. \A a \in Element : a \in Nat
  BY Parents DEF Element
<1>7. ASSUME NEW x \in Reached(id), Precedes(x, s)
      PROVE  x = e \/ Precedes(x, e)
  <2>1. x \in Element
    BY ReachedFacts
  <2>2. CASE x \in Ancestors(s)
    BY <1>3, <1>4, <2>2 DEF Precedes
  <2>3. ASSUME NEW a \in Below[x], NEW b \in Below[s], parentNode[a] = parentNode[b], a < b
        PROVE  x = e \/ Precedes(x, e)
    <3>1. a \in Element
      BY <2>1, BelowTransitive
    <3>2. CASE b # s
      <4>1. b \in Below[e]
        BY <1>3, <1>4, <2>3, <3>2 DEF Ancestors
      <4> QED
        BY <2>3, <4>1 DEF Precedes
    <3>3. CASE b = s
      <4>1. a < g \/ a = g
        BY <1>1, <1>2, <1>6, <2>3, <3>1, <3>3
      <4>2. CASE a < g
        BY <1>2, <2>3, <3>3, <4>2 DEF Precedes
      <4>3. CASE a = g
        BY <2>3, <4>3, NothingRemains
      <4> QED
        BY <4>1, <4>2, <4>3
    <3> QED
      BY <3>2, <3>3
  <2> QED
    BY <1>7, <2>2, <2>3 DEF Precedes
<1>8. ASSUME NEW x \in Reached(id), x = e \/ Precedes(x, e)
      PROVE  Precedes(x, s)
  <2>1. x \in Element /\ s \in Below[s]
    BY <1>2, ReachedFacts, BelowRange
  <2>2. ASSUME g \in Below[x]
        PROVE  Precedes(x, s)
    BY <1>2, <2>1, <2>2 DEF Precedes
  <2>3. CASE x = e
    BY <2>2, <2>3
  <2>4. CASE x \in Ancestors(e)
    <3>1. x \in Below[e]
      BY <2>4 DEF Ancestors
    <3>2. CASE g <= x
      BY <1>1, <2>2, <3>1, <3>2, BelowChain
    <3>3. CASE x < g
      <4>1. x \in Below[g] /\ x # g
        BY <1>1, <1>6, <2>1, <3>1, <3>3, BelowChain
      <4> QED
        BY <1>3, <4>1 DEF Ancestors, Precedes
    <3> QED
      BY <1>1, <1>6, <2>1, <3>2, <3>3
  <2>5. ASSUME NEW a \in Below[x], NEW b \in Below[e], parentNode[a] = parentNode[b], a < b
        PROVE  Precedes(x, s)
    <3>1. a \in Element /\ b \in Element
      BY <1>1, <2>1, BelowTransitive
    <3>2. CASE b = g
      <4>1. a < s
        BY <1>1, <1>2, <1>6, <2>5, <3>1, <3>2
      <4> QED
        BY <1>2, <2>1, <2>5, <3>2, <4>1 DEF Precedes
    <3>3. CASE b < g
      <4>1. b \in Ancestors(g)
        BY <1>1, <1>6, <2>5, <3>1, <3>3, BelowChain DEF Ancestors
      <4>2. b \in Below[s]
        BY <1>3, <4>1 DEF Ancestors
      <4> QED
        BY <2>5, <4>2 DEF Precedes
    <3>4. CASE g < b
      <4>1. g \in Ancestors(b)
        BY <1>1, <1>6, <2>5, <3>1, <3>4, BelowChain DEF Ancestors
      <4>2. g \in Below[parentNode[a]] /\ Below[a] \subseteq Below[x]
        BY <2>1, <2>5, <3>1, <4>1, AncestorsBelow, BelowTransitive
      <4>3. g \in Below[a]
        BY <3>1, <4>2, BelowSteps
      <4> QED
        BY <2>2, <4>2, <4>3
    <3> QED
      BY <1>1, <1>6, <3>1, <3>2, <3>3, <3>4
  <2> QED
    BY <1>8, <2>3, <2>4, <2>5 DEF Precedes
<1> QED
  BY <1>5, <1>7, <1>8 DEF s

\* The loop of the ascent ends on the nearest ancestor it looks for.
LEMMA AscendStops ==
  ASSUME Document, NEW id \in Element, parentElement = id, NEW e \in Reached(id),
         nextSibling(e) = 0
  PROVE  \E top \in Ancestors(e) :
           /\ top = id \/ (nextSibling(top) # 0 /\ id \in Ancestors(top))
           /\ \A b \in Below[e] : top < b => nextSibling(b) = 0
           /\ Ascend(e) = IF top = id THEN id ELSE nextSibling(top)
<1> DEFINE Stops == {a \in Ancestors(e) : a = parentElement \/ nextSibling(a) # 0}
           top == Max(Stops)
<1>1. e \in Element /\ id \in Stops
  BY ReachedFacts
<1>2. Stops \in SUBSET (0..N) /\ N \in Nat
  <2>1. \A a \in Ancestors(e) : a \in 0..N
    BY <1>1, AncestorsBelow, Parents DEF Element
  <2> QED
    BY <2>1, Parents
<1>3. top \in Stops /\ \A a \in Stops : a <= top
  <2> HIDE DEF Stops
  <2> QED
    BY <1>1, <1>2, MinAndMax
<1>4. Ascend(e) = IF top = id THEN id ELSE nextSibling(top)
  BY DEF Ascend
<1> HIDE DEF top
<1>5. top \in Ancestors(e) /\ top \in Below[e] /\ id \in Below[e] /\ id <= top
  BY <1>1, <1>3 DEF Ancestors
<1>6. top = id \/ (nextSibling(top) # 0 /\ id \in Ancestors(top))
  <2>1. top # id => id \in Ancestors(top)
    BY <1>1, <1>5, BelowChain DEF Ancestors
  <2> QED
    BY <1>3, <2>1
<1>7. \A b \in Below[e] : top < b => nextSibling(b) = 0
  <2> SUFFICES ASSUME NEW b \in Below[e], top < b, b # e
               PROVE  nextSibling(b) = 0
    OBVIOUS
  <2>1. b \in Ancestors(e) /\ b \in Nat /\ top \in Nat
    BY <1>1, <1>5, BelowTransitive, Parents DEF Ancestors, Element
  <2>2. b \notin Stops
    BY <1>3, <2>1
  <2> QED
    BY <2>1, <2>2
<1> QED
  BY <1>4, <1>5, <1>6, <1>7

\* A round of the walk goes from an element to the one that follows it in document order
\* among those to be reached, and from the last one back.
LEMMA FollowingOrder ==
  ASSUME Document, NEW id \in Element, parentElement = id, NEW e \in Reached(id)
  PROVE  /\ Following(e) \in Reached(id) \cup {id}
         /\ \A x \in Reached(id) :
              (Following(e) = id \/ Precedes(x, Following(e))) <=> (x = e \/ Precedes(x, e))
<1>1. e \in Element /\ id \in Ancestors(e) /\ id < e /\ e \in Below[e]
  BY ReachedFacts, BelowRange
<1>2. \A x \in Reached(id) : x # id /\ x \in Element
  BY ReachedFacts, Parents DEF Element
<1>3. CASE IsDIV(e) /\ firstChild(e) # 0
  <2> DEFINE c == firstChild(e)
  <2>1. Following(e) = c
    BY <1>3 DEF Following
  <2>2. c \in Element /\ parentNode[c] = e
    BY <1>1, <1>3, FirstChild
  <2>3. \A x \in Element : Precedes(x, c) <=> x = e \/ Precedes(x, e)
    BY <1>1, <1>3, DownOrder
  <2> HIDE DEF c
  <2>4. \A a \in Ancestors(c) : a = e \/ a \in Ancestors(e)
    BY <2>2, AncestorsBelow DEF Ancestors
  <2>5. id \in Ancestors(c)
    BY <1>1, <2>2, AncestorsBelow DEF Ancestors
  <2>6. c \in Reached(id)
    BY <1>3, <2>2, <2>4, <2>5, ReachedFacts, IsReached
  <2> QED
    BY <1>2, <2>1, <2>3, <2>6
<1>4. CASE DeadEnd(e) /\ nextSibling(e) # 0
  <2>1. Following(e) = nextSibling(e)
    BY <1>4 DEF Following, DeadEnd
  <2>2. \A b \in Below[e] : ~(e < b)
    BY <1>1, BelowRange, Parents DEF Element
  <2>3. /\ nextSibling(e) \in Reached(id)
        /\ \A x \in Reached(id) : Precedes(x, nextSibling(e)) <=> x = e \/ Precedes(x, e)
    BY <1>1, <1>4, <2>2, AcrossOrder
  <2> QED
    BY <1>2, <2>1, <2>3
<1>5. CASE DeadEnd(e) /\ nextSibling(e) = 0
  <2>1. Following(e) = Ascend(e)
    BY <1>5 DEF Following, DeadEnd
  <2>2. PICK top \in Ancestors(e) :
          /\ top = id \/ (nextSibling(top) # 0 /\ id \in Ancestors(top))
          /\ \A b \in Below[e] : top < b => nextSibling(b) = 0
          /\ Ascend(e) = IF top = id THEN id ELSE nextSibling(top)
    BY <1>5, AscendStops
  <2>3. top \in Below[e]
    BY DEF Ancestors
  <2>4. CASE top # id
    <3>1. /\ nextSibling(top) \in Reached(id)
          /\ \A x \in Reached(id) : Precedes(x, nextSibling(top)) <=> x = e \/ Precedes(x, e)
      BY <1>5, <2>2, <2>3, <2>4, AcrossOrder
    <3> QED
      BY <1>2, <2>1, <2>2, <2>4, <3>1
  <2>5. CASE top = id
    <3>1. \A x \in Reached(id) : id \in Below[x]
      BY ReachedFacts DEF Ancestors
    <3>2. \A x \in Reached(id) : x = e \/ Precedes(x, e)
      BY <1>5, <2>2, <2>3, <2>5, <3>1, NothingRemains
    <3> QED
      BY <2>1, <2>2, <2>5, <3>2
  <2> QED
    BY <2>4, <2>5
<1> QED
  BY <1>3, <1>4, <1>5 DEF DeadEnd

\* The walk begins with the first of them.
LEMMA FirstOrder ==
  ASSUME Document, NEW id \in Element
  PROVE  /\ firstChild(id) = 0 => Reached(id) = {}
         /\ firstChild(id) # 0 => /\ firstChild(id) \in Reached(id)
                                  /\ \A x \in Reached(id) : ~Precedes(x, firstChild(id))
<1>1. CASE firstChild(id) = 0
  <2> SUFFICES ASSUME NEW x \in Reached(id) PROVE FALSE
    BY <1>1
  <2>1. PICK c \in Below[x] : parentNode[c] = id
    BY ReachedFacts, ChildToward
  <2>2. c \in Element
    BY ReachedFacts, BelowTransitive
  <2> QED
    BY <1>1, <2>1, <2>2, FirstChild
<1>2. CASE firstChild(id) # 0
  <2> DEFINE c == firstChild(id)
  <2>1. c \in Element /\ parentNode[c] = id
    BY <1>2, FirstChild
  <2>2. \A x \in Element : Precedes(x, c) <=> x = id \/ Precedes(x, id)
    BY <1>2, DownOrder
  <2> HIDE DEF c
  <2>3. Ancestors(c) = Below[id]
    BY <2>1, AncestorsBelow
  <2>4. \A a \in Ancestors(c) : ~(id < a)
    BY <2>3, BelowRange, Parents DEF Element
  <2>5. c \in Reached(id)
    BY <2>1, <2>3, <2>4, BelowRange, IsReached
  <2>6. ASSUME NEW x \in Reached(id), Precedes(x, id)
        PROVE  FALSE
    <3>1. x \in Element /\ id \in Ancestors(x) /\ id < x
      BY ReachedFacts
    <3>2. CASE x \in Ancestors(id)
      BY <3>1, <3>2, AncestorsBelow, Parents DEF Element
    <3>3. ASSUME NEW a \in Below[x], NEW b \in Below[id], parentNode[a] = parentNode[b], a < b
          PROVE  FALSE
      <4>1. b \in Below[x] /\ a \in Element /\ a \in Nat
        BY <3>1, BelowTransitive, Parents DEF Ancestors, Element
      <4>2. a = b
        BY <3>1, <3>3, <4>1, SiblingsApart
      <4> QED
        BY <3>3, <4>1, <4>2
    <3> QED
      BY <2>6, <3>2, <3>3 DEF Precedes
  <2>7. \A x \in Reached(id) : x \in Element /\ x # id
    BY ReachedFacts, Parents DEF Element
  <2>8. \A x \in Reached(id) : ~Precedes(x, c)
    BY <2>2, <2>6, <2>7
  <2> QED
    BY <1>2, <2>5, <2>8 DEF c
<1> QED
  BY <1>1, <1>2

-----------------------------------------------------------------------------
(* Toggle. *)

\* The walk leaves the document as it is.
LEMMA DocumentKept ==
  ASSUME UNCHANGED document
  PROVE  /\ parentNode' = parentNode /\ kind' = kind /\ Below' = Below
         /\ \A id : Reached(id)' = Reached(id) /\ firstChild(id)' = firstChild(id)
         /\ \A e, f : Precedes(e, f)' <=> Precedes(e, f)
<1>1. parentNode' = parentNode /\ kind' = kind
  BY DEF document
<1>2. Below' = Below
  BY <1>1, BelowKept
<1>3. \A id : Reached(id)' = Reached(id)
  BY <1>1, <1>2 DEF Reached, Ancestors, IsDIV
<1>4. \A id : firstChild(id)' = firstChild(id)
  BY <1>1 DEF firstChild
<1>5. \A e, f : Precedes(e, f)' <=> Precedes(e, f)
  BY <1>1, <1>2 DEF Precedes, Ancestors
<1> QED
  BY <1>1, <1>2, <1>3, <1>4, <1>5

LEMMA Numbers == N \in Nat /\ 0 \in 0..N /\ 0 \notin Element /\ Element \in SUBSET (0..N)
  BY ToggleAssumption DEF Element

LEMMA WalkDocument == WalkInv => Document
  BY DEF WalkInv, ToggleTypeOK, Document

LEMMA WalkInvInit == Init => WalkInv
<1> SUFFICES ASSUME ToggleInit PROVE WalkInv
  BY DEF Init
<1>1. /\ parentNode \in [Element -> 0..N]
      /\ parentNode[1] = 0 /\ \A e \in 2..N : parentNode[e] \in 1..(e - 1)
  <2>1. parentNode \in {f \in [Element -> 0..N] :
                          f[1] = 0 /\ \A e \in 2..N : f[e] \in 1..(e - 1)}
    BY DEF ToggleInit
  <2> QED
    BY ONLY <2>1
<1>2. kind \in [Element -> Kind]
  <2>1. kind \in {f \in [Element -> Kind] : f[1] = "DIV"}
    BY DEF ToggleInit
  <2> QED
    BY ONLY <2>1
<1>3. parentElement = 0 /\ element = 0
  BY DEF ToggleInit
<1>4. display \in [Element -> {"", "block", "none"}] /\ start = display
  BY DEF ToggleInit
<1>5. ToggleTypeOK
  BY <1>1, <1>2, <1>3, <1>4, Numbers DEF ToggleTypeOK
<1>6. IsDocument
  BY <1>1 DEF IsDocument
<1> QED
  BY <1>3, <1>5, <1>6 DEF WalkInv

\* A click.
LEMMA ToggleWalks ==
  ASSUME WalkInv, NEW id \in Element, Toggle(id)
  PROVE  WalkInv'
<1>1. Document /\ ToggleTypeOK /\ id \in 0..N /\ id # 0
  BY Numbers, WalkDocument DEF WalkInv
<1>2. /\ parentElement' = id /\ element' = firstChild(id)
      /\ start' = display /\ display' = display /\ UNCHANGED document
  BY DEF Toggle
<1>3. firstChild(id) \in 0..N
  <2>1. firstChild(id) = 0 \/ firstChild(id) \in Element
    BY <1>1, FirstChild
  <2> QED
    BY <2>1, Numbers
<1>4. ToggleTypeOK' /\ IsDocument'
  BY <1>1, <1>2, <1>3, DocumentKept DEF ToggleTypeOK, IsDocument, WalkInv
<1>5. element' \in Reached(id) \cup {0, id} /\ (element' = 0 => firstChild(id) = 0)
  BY <1>1, <1>2, FirstOrder
<1>6. \A e \in Reached(id) : ~Passed(e)'
  <2>1. element' # id
    <3>1. \A e \in Reached(id) : e # id
      BY <1>1, ReachedFacts, Parents DEF Element
    <3> QED
      BY <1>1, <1>2, <3>1, FirstOrder
  <2> QED
    BY <1>1, <1>2, <2>1, FirstOrder, DocumentKept DEF Passed
<1> QED
  BY <1>2, <1>4, <1>5, <1>6, DocumentKept DEF WalkInv

\* A round.
LEMMA VisitWalks ==
  ASSUME WalkInv, Visit, NEW id, parentElement = id, NEW e, element = e
  PROVE  WalkInv'
<1>1. Document /\ ToggleTypeOK /\ id \in Element /\ e \in Reached(id) /\ e # id /\ e # 0
  <2>1. id \in 0..N /\ id # 0 /\ e # id /\ e # 0
    BY DEF WalkInv, ToggleTypeOK, Visit
  <2>2. id \in Element
    BY ONLY <2>1, Numbers DEF Element
  <2>3. e \in Reached(id) \cup {0, id}
    BY <2>1 DEF WalkInv
  <2> QED
    BY <2>1, <2>2, <2>3, WalkDocument DEF WalkInv
<1>2. /\ element' = Following(e) /\ parentElement' = id /\ start' = start
      /\ UNCHANGED document
      /\ display' = IF kind[e] = "ISubIndex"
                      THEN [display EXCEPT ![e] = IF @ = "block" THEN "none" ELSE "block"]
                      ELSE display
  BY DEF Visit
<1>3. /\ Following(e) \in Reached(id) \cup {id}
      /\ \A x \in Reached(id) :
           (Following(e) = id \/ Precedes(x, Following(e))) <=> (x = e \/ Precedes(x, e))
  BY <1>1, FollowingOrder
<1>4. e \in Element /\ Following(e) \in Element /\ Following(e) # 0 /\ ~Precedes(e, e)
  <2>1. e \in Element /\ Following(e) \in Element
    BY <1>1, <1>3, ReachedFacts
  <2> QED
    BY <1>1, <2>1, NotBeforeItself, Numbers
<1>5. \A x \in Reached(id) : Passed(x)' <=> x = e \/ Passed(x)
  BY <1>1, <1>2, <1>3, <1>4, DocumentKept DEF Passed
<1>6. ~Passed(e)
  BY <1>1, <1>4 DEF Passed
<1>7. \A x \in Element :
        display[x] = IF x \in Reached(id) /\ kind[x] = "ISubIndex" /\ Passed(x)
                       THEN (IF start[x] = "block" THEN "none" ELSE "block")
                       ELSE start[x]
  BY <1>1, Numbers DEF WalkInv
<1>8. display \in [Element -> {"", "block", "none"}]
  BY <1>1 DEF ToggleTypeOK
<1>9. ToggleTypeOK' /\ IsDocument'
  <2>1. element' \in 0..N /\ parentElement' \in 0..N
    BY <1>1, <1>2, <1>4, Numbers
  <2>2. display' \in [Element -> {"", "block", "none"}]
    BY <1>2, <1>8
  <2>3. parentNode' = parentNode /\ kind' = kind /\ start' = start
    BY <1>2 DEF document
  <2>4. IsDocument'
    BY <2>3 DEF IsDocument, WalkInv
  <2>5. ToggleTypeOK'
    BY <1>1, <2>1, <2>2, <2>3 DEF ToggleTypeOK
  <2> QED
    BY <2>4, <2>5
<1>10. ASSUME NEW x \in Element
       PROVE  display'[x] = IF x \in Reached(id) /\ kind[x] = "ISubIndex" /\ Passed(x)'
                              THEN (IF start[x] = "block" THEN "none" ELSE "block")
                              ELSE start[x]
  <2>1. CASE x = e /\ kind[e] = "ISubIndex"
    <3>1. display[e] = start[e]
      BY <1>4, <1>6, <1>7
    <3>2. Passed(e)'
      BY <1>1, <1>5
    <3>3. display'[e] = IF display[e] = "block" THEN "none" ELSE "block"
      BY <1>2, <1>4, <1>8, <2>1
    <3>4. e \in Reached(id)
      BY <1>1
    <3> QED
      BY <2>1, <3>1, <3>2, <3>3, <3>4
  <2>2. CASE ~(x = e /\ kind[e] = "ISubIndex")
    <3>1. display'[x] = display[x]
      BY <1>2, <1>4, <1>8, <2>2
    <3>2. x \in Reached(id) /\ kind[x] = "ISubIndex" => (Passed(x)' <=> Passed(x))
      BY <1>5, <2>2
    <3> QED
      BY <1>7, <3>1, <3>2
  <2> QED
    BY <2>1, <2>2
<1>11. element' \in Reached(id) \cup {0, id} /\ element' # 0
  BY <1>2, <1>3, <1>4
<1> QED
  BY <1>2, <1>9, <1>10, <1>11, DocumentKept DEF WalkInv

LEMMA WalkInvStep == WalkInv /\ [Next]_vars => WalkInv'
<1> SUFFICES ASSUME WalkInv, [Next]_vars PROVE WalkInv'
  OBVIOUS
<1>1. ASSUME UNCHANGED toggleVars PROVE WalkInv'
  <2>1. UNCHANGED document /\ UNCHANGED <<display, element, parentElement, start>>
    BY <1>1 DEF toggleVars, document
  <2> QED
    BY <2>1, DocumentKept DEF WalkInv, ToggleTypeOK, IsDocument, Passed
<1>2. CASE Return
  <2>1. /\ parentElement' = 0 /\ element' = 0 /\ 0 \in 0..N
        /\ UNCHANGED document /\ UNCHANGED <<display, start>>
    BY <1>2, ToggleAssumption DEF Return
  <2> QED
    BY <2>1, DocumentKept DEF WalkInv, ToggleTypeOK, IsDocument
<1>3. ToggleNext \/ UNCHANGED toggleVars
  BY DEF Next, MenuStep, ContentStep, FilesStep, ResultsStep, vars
<1>4. Visit => WalkInv'
  BY VisitWalks
<1> QED
  BY <1>1, <1>2, <1>3, <1>4, ToggleWalks DEF ToggleNext

\* Toggle stays below the element it is called for and, when it comes back, has turned
\* every index it is to reach, once, and nothing else, in every document.
THEOREM ToggleTurnsWhatIsBelow == Spec => []TurnsWhatIsBelow
<1>1. ASSUME WalkInv PROVE TurnsWhatIsBelow
  <2> SUFFICES ASSUME parentElement # 0 PROVE TurnsWhatIsBelow
    BY DEF TurnsWhatIsBelow
  <2>1. Document /\ parentElement \in Element
    <3>1. parentElement \in 0..N /\ parentElement # 0
      BY <1>1 DEF WalkInv, ToggleTypeOK
    <3>2. parentElement \in Element
      BY ONLY <3>1, Numbers DEF Element
    <3> QED
      BY <1>1, <3>2, WalkDocument
  <2>2. element \in {0, parentElement} \/ parentElement \in Ancestors(element)
    BY <1>1, <2>1, ReachedFacts DEF WalkInv
  <2>3. element \in {0, parentElement} => \A e \in Reached(parentElement) : Passed(e)
    BY <1>1, <2>1, FirstOrder DEF WalkInv, Passed
  <2>4. element \in {0, parentElement} =>
          \A e \in Element :
            display[e] = IF e \in Reached(parentElement) /\ kind[e] = "ISubIndex"
                           THEN (IF start[e] = "block" THEN "none" ELSE "block")
                           ELSE start[e]
    BY <1>1, <2>3 DEF WalkInv
  <2> QED
    BY <2>2, <2>4 DEF TurnsWhatIsBelow
<1> QED
  BY <1>1, WalkInvInit, WalkInvStep, PTL DEF Spec

-----------------------------------------------------------------------------
(* The place of a tip. *)

\* The rounds of GetXPosition, step by step.
LEMMA PositionSteps ==
  ASSUME NEW offset, NEW L \in Nat, Len(offset) = L
  PROVE  /\ PositionAfter(offset)[0] = 0
         /\ \A n \in 1..L :
              PositionAfter(offset)[n] = PositionAfter(offset)[n - 1] + offset[n]
<1> DEFINE Upto(g, k) == g = [n \in 0..k |-> IF n = 0 THEN 0 ELSE g[n - 1] + offset[n]]
           Defined == {k \in Nat : \E g : Upto(g, k)}
<1>1. 0 \in Defined
  <2>1. Upto([n \in 0..0 |-> 0], 0)
    OBVIOUS
  <2> QED
    BY <2>1
<1>2. ASSUME NEW k \in 0..(L - 1), k \in Defined
      PROVE  k + 1 \in Defined
  <2>1. PICK g : Upto(g, k)
    BY <1>2
  <2> DEFINE h == [n \in 0..(k + 1) |-> IF n = k + 1 THEN g[k] + offset[k + 1] ELSE g[n]]
  <2>2. \A n \in 0..k : h[n] = g[n]
    OBVIOUS
  <2>3. h[k + 1] = h[k] + offset[k + 1] /\ k + 1 # 0
    BY <2>2
  <2>4. \A n \in 0..k : h[n] = IF n = 0 THEN 0 ELSE h[n - 1] + offset[n]
    <3> SUFFICES ASSUME NEW n \in 0..k
                 PROVE  h[n] = IF n = 0 THEN 0 ELSE h[n - 1] + offset[n]
      OBVIOUS
    <3>1. h[n] = g[n] /\ (n # 0 => h[n - 1] = g[n - 1])
      BY <2>2
    <3>2. g[n] = IF n = 0 THEN 0 ELSE g[n - 1] + offset[n]
      BY <2>1
    <3> HIDE DEF h
    <3> QED
      BY <3>1, <3>2
  <2>5. h = [n \in 0..(k + 1) |-> h[n]]
    OBVIOUS
  <2> HIDE DEF h
  <2>6. \A n \in 0..(k + 1) : h[n] = IF n = 0 THEN 0 ELSE h[n - 1] + offset[n]
    BY <2>3, <2>4
  <2>7. Upto(h, k + 1)
    BY <2>5, <2>6
  <2> QED
    BY <2>7
<1>3. \E g : Upto(g, L)
  <2> HIDE DEF Defined
  <2>1. \A k \in 0..(L - 1) : k \in Defined => k + 1 \in Defined
    BY <1>2
  <2>2. \A k \in 0..L : k \in Defined
    BY <1>1, <2>1, Reaches
  <2>3. L \in Defined
    BY <2>2
  <2> QED
    BY <2>3 DEF Defined
<1>4. Upto(PositionAfter(offset), L)
  <2>1. PositionAfter(offset) = CHOOSE g : Upto(g, L)
    BY DEF PositionAfter
  <2> HIDE DEF Upto
  <2> QED
    BY <1>3, <2>1
<1> QED
  BY <1>4

LEMMA PositionType == \A link \in Link : GetXPosition(link) \in Int
<1> SUFFICES ASSUME NEW link \in Link PROVE GetXPosition(link) \in Int
  OBVIOUS
<1> DEFINE offset == OffsetLeft[link]
           L == Len(offset)
           Good == {n \in Nat : PositionAfter(offset)[n] \in Int}
<1>1. offset \in Seq(Int) /\ L \in Nat
  BY TipAssumption
<1>2. \A n \in 1..L : offset[n] \in Int
  BY <1>1
<1>3. GetXPosition(link) = PositionAfter(offset)[L]
  BY DEF GetXPosition
<1> HIDE DEF offset, L
<1>4. Len(offset) = L
  BY DEF L
<1>5. 0 \in Good
  BY <1>1, <1>4, PositionSteps
<1>6. ASSUME NEW n \in 0..(L - 1), n \in Good PROVE n + 1 \in Good
  <2>1. n + 1 \in Nat /\ n + 1 \in 1..L /\ (n + 1) - 1 = n
    BY ONLY <1>1, n \in 0..(L - 1)
  <2>2. PositionAfter(offset)[n + 1] = PositionAfter(offset)[n] + offset[n + 1]
    BY <1>1, <1>4, <2>1, PositionSteps
  <2> QED
    BY <1>2, <1>6, <2>1, <2>2
<1>7. \A n \in 0..(L - 1) : n \in Good => n + 1 \in Good
  BY <1>6
<1>8. L \in Good
  <2> HIDE DEF Good
  <2>1. \A k \in 0..L : k \in Good
    BY <1>1, <1>5, <1>7, Reaches
  <2> QED
    BY <1>1, <2>1
<1> QED
  BY <1>3, <1>8

\* What ReallyShowTip makes of it.
LEMMA LeftOfFits ==
  ASSUME NEW tip \in Tip, NEW w \in Nat
  PROVE  /\ LeftOf(tip, w) \in Nat
         /\ LeftOf(tip, w) > 0 => LeftOf(tip, w) + TipWidth[tip.link] <= w
<1>1. tip.link \in Link /\ tip.docX \in Nat
  BY TipAssumption DEF Tip
<1>2. Wanted(tip) \in Int /\ TipWidth[tip.link] \in Nat
  BY <1>1, PositionType, TipAssumption DEF Wanted
<1> QED
  BY <1>2 DEF LeftOf

\* The places of the tips, and the width of the window.
PlaceInv == TipInv /\ left \in [Link -> Nat] /\ docWidth \in DocWidth

LEMMA PlaceInvInit == Init => PlaceInv
BY TipInvInit DEF Init, TipInit, PlaceInv

\* The tip that comes up is the one of the timer.
LEMMA TipComesUp ==
  ASSUME TipInv, TipTimer
  PROVE  \E tip \in Tip : /\ visible' = visible \cup {tip.link}
                          /\ left' = [left EXCEPT ![tip.link] = LeftOf(tip, docWidth)]
BY DEF TipInv, TipTimer, ReallyShowTip, OnlyTheHoveredTip, HandleIsExact

LEMMA PlaceInvStep == PlaceInv /\ [Next]_vars => PlaceInv'
<1> SUFFICES ASSUME PlaceInv, [Next]_vars PROVE PlaceInv'
  OBVIOUS
<1>1. TipInv'
  BY TipInvStep DEF PlaceInv
<1>2. docWidth' \in DocWidth
  BY DEF PlaceInv, Next, vars, MenuStep, ContentStep, FilesStep, ResultsStep, Resize
<1>3. left' = left \/ TipTimer
  BY DEF Next, vars, MenuStep, ContentStep, FilesStep, ResultsStep, Resize, tipVars,
         TipNext, MouseOver, MouseOut
<1>4. ASSUME TipTimer PROVE left' \in [Link -> Nat]
  <2>1. PICK tip \in Tip : left' = [left EXCEPT ![tip.link] = LeftOf(tip, docWidth)]
    BY <1>4, TipComesUp DEF PlaceInv
  <2>2. LeftOf(tip, docWidth) \in Nat
    BY LeftOfFits, WidthAssumption DEF PlaceInv
  <2> QED
    BY <2>1, <2>2 DEF PlaceInv
<1> QED
  BY <1>1, <1>2, <1>3, <1>4 DEF PlaceInv

\* A tip comes up on the page, wherever its link is and whatever the width of the window: not
\* left of it, and over its right border only where it is too wide.
THEOREM TipsComeUpOnThePage == Spec => ComesUpOnThePage
<1>1. ASSUME PlaceInv, [Next]_vars, NEW link \in visible' \ visible
      PROVE  /\ left'[link] >= 0
             /\ left'[link] > 0 => left'[link] + TipWidth[link] <= docWidth
  <2>1. TipTimer
    BY <1>1 DEF Next, vars, MenuStep, ContentStep, FilesStep, ResultsStep, Resize, tipVars,
                TipNext, MouseOver, MouseOut, HideTip
  <2>2. PICK tip \in Tip : /\ visible' = visible \cup {tip.link}
                           /\ left' = [left EXCEPT ![tip.link] = LeftOf(tip, docWidth)]
    BY <1>1, <2>1, TipComesUp DEF PlaceInv
  <2>3. link = tip.link /\ link \in Link
    BY <1>1, <2>2 DEF Tip
  <2>4. left'[link] = LeftOf(tip, docWidth)
    BY <1>1, <2>2, <2>3 DEF PlaceInv
  <2>5. docWidth \in Nat
    BY <1>1, WidthAssumption DEF PlaceInv
  <2> QED
    BY <2>3, <2>4, <2>5, LeftOfFits
<1>2. PlaceInv /\ [Next]_vars =>
        [\A link \in visible' \ visible :
            /\ left'[link] >= 0
            /\ left'[link] > 0 => left'[link] + TipWidth[link] <= docWidth]_tipVars
  BY <1>1
<1> QED
  BY <1>2, PlaceInvInit, PlaceInvStep, PTL DEF Spec, ComesUpOnThePage

-----------------------------------------------------------------------------
(* The alphabet of names. *)

\* The letters are all different.
LEMMA LettersApart ==
  \A j, k \in 1..26 : /\ UpperCase[j] = UpperCase[k] => j = k
                      /\ LowerCase[j] = LowerCase[k] => j = k
                      /\ UpperCase[j] # LowerCase[k]
<1>1. \A j, k \in 1..26 : UpperCase[j] = UpperCase[k] => j = k
  BY DEF UpperCase
<1>2. \A j, k \in 1..26 : LowerCase[j] = LowerCase[k] => j = k
  BY DEF LowerCase
<1>3. \A j, k \in 1..26 : UpperCase[j] # LowerCase[k]
  BY DEF UpperCase, LowerCase
<1> QED
  BY <1>1, <1>2, <1>3

\* What becomes of letters, and of everything else, in small letters.
LEMMA LowerFacts ==
  /\ \A k \in 1..26 : Lower(UpperCase[k]) = LowerCase[k]
  /\ \A c : (\A k \in 1..26 : UpperCase[k] # c) => Lower(c) = c
  /\ \A k \in 1..26 : Lower(LowerCase[k]) = LowerCase[k]
<1>1. ASSUME NEW k \in 1..26 PROVE Lower(UpperCase[k]) = LowerCase[k]
  <2>1. (CHOOSE j \in 1..26 : UpperCase[j] = UpperCase[k]) = k
    BY LettersApart
  <2> QED
    BY <2>1 DEF Lower
<1>2. ASSUME NEW c, \A k \in 1..26 : UpperCase[k] # c PROVE Lower(c) = c
  BY <1>2 DEF Lower
<1>3. ASSUME NEW k \in 1..26 PROVE Lower(LowerCase[k]) = LowerCase[k]
  BY <1>2, LettersApart
<1> QED
  BY <1>1, <1>2, <1>3

\* The underscore and the space have codes.
LEMMA UnderscoreAndSpace == Character[1] = "_" /\ Character[2] = " "
  BY Zenon DEF Character

\* A character with a code is no letter.
LEMMA CharacterFacts ==
  \A k \in 1..29 : /\ Character[k] \in Char
                   /\ \A j \in 1..26 : UpperCase[j] # Character[k] /\ LowerCase[j] # Character[k]
<1> DEFINE und == "_"
           spc == " "
           lbc == "{"
           rbc == "}"
           sco == ";"
           com == ","
<1>1. /\ Character[1] = und /\ Character[2] = spc /\ Character[3] = "~"
      /\ Character[4] = "!" /\ Character[5] = "@" /\ Character[6] = "#"
      /\ Character[7] = "$" /\ Character[8] = "%" /\ Character[9] = "^"
      /\ Character[10] = "&" /\ Character[11] = "*" /\ Character[12] = "("
      /\ Character[13] = ")" /\ Character[14] = "-" /\ Character[15] = "+"
      /\ Character[16] = "=" /\ Character[17] = lbc /\ Character[18] = rbc
      /\ Character[19] = "[" /\ Character[20] = "]" /\ Character[21] = ":"
      /\ Character[22] = sco /\ Character[23] = "'" /\ Character[24] = "<"
      /\ Character[25] = ">" /\ Character[26] = com /\ Character[27] = "."
      /\ Character[28] = "?" /\ Character[29] = "/"
  BY Zenon DEF Character
<1> DEFINE Letter == {"a", "b", "c", "d", "e", "f", "g", "h", "i", "j", "k", "l", "m",
                      "n", "o", "p", "q", "r", "s", "t", "u", "v", "w", "x", "y", "z",
                      "A", "B", "C", "D", "E", "F", "G", "H", "I", "J", "K", "L", "M",
                      "N", "O", "P", "Q", "R", "S", "T", "U", "V", "W", "X", "Y", "Z"}
<1>2. /\ und \notin Letter /\ spc \notin Letter /\ lbc \notin Letter
      /\ rbc \notin Letter /\ sco \notin Letter /\ com \notin Letter
  BY Zenon
<1>3. \A k \in 1..29 : Character[k] \in Char
  BY Zenon DEF Char
<1> HIDE DEF und, spc, lbc, rbc, sco, com
<1>4. \A k \in 1..29 : Character[k] \in Char
  BY <1>3
<1>5. \A k \in 1..29 : Character[k] \notin Letter
  BY <1>1, <1>2
<1>6. \A j \in 1..26 : UpperCase[j] \in Letter /\ LowerCase[j] \in Letter
  BY DEF UpperCase, LowerCase
<1> HIDE DEF Letter
<1>7. \A k \in 1..29 : \A j \in 1..26 : UpperCase[j] # Character[k] /\ LowerCase[j] # Character[k]
  BY <1>5, <1>6
<1> QED
  BY <1>4, <1>7, Zenon

\* The codes are all different.
LEMMA CodesDiffer ==
  \A j, k \in 1..29 :
    CodeOf[j][1] = CodeOf[k][1] /\ CodeOf[j][2] = CodeOf[k][2] /\ CodeOf[j][3] = CodeOf[k][3]
      => j = k
  BY DEF CodeOf

\* The codes are of three small letters, and tell their characters.
LEMMA CodeOfFacts ==
  /\ \A k \in 1..29 : CodeOf[k] \in Seq(Char) /\ Len(CodeOf[k]) = 3
  /\ \A k \in 1..29 : \A i \in 1..3 : Lower(CodeOf[k][i]) = CodeOf[k][i]
  /\ \A j, k \in 1..29 : (\A i \in 1..3 : CodeOf[j][i] = CodeOf[k][i]) => j = k
<1>1. ASSUME NEW k \in 1..29
      PROVE  CodeOf[k] \in Seq(Char) /\ Len(CodeOf[k]) = 3
  <2> DEFINE Small == {"a", "b", "c", "d", "e", "f", "g", "h", "i", "j", "k", "l", "m",
                       "n", "o", "p", "q", "r", "s", "t", "u", "v", "w", "x", "y", "z"}
  <2>1. Small \subseteq Char
    <3>1. Small \subseteq {LowerCase[j] : j \in 1..26}
      BY DEF LowerCase
    <3> HIDE DEF Small
    <3> QED
      BY <3>1, Zenon DEF Char
  <2>2. CodeOf \in Seq(Seq(Small))
    BY DEF CodeOf
  <2>3. Len(CodeOf) = 29 /\ \A j \in 1..29 : Len(CodeOf[j]) = 3
    BY DEF CodeOf
  <2> HIDE DEF Small
  <2>4. CodeOf[k] \in Seq(Small)
    BY <2>2, <2>3, ElementOfSeq
  <2> QED
    BY <2>1, <2>3, <2>4, SeqMonotonic
<1>2. \A k \in 1..29 : \A i \in 1..3 : \A j \in 1..26 : UpperCase[j] # CodeOf[k][i]
  BY DEF CodeOf, UpperCase
<1>3. \A j, k \in 1..29 : (\A i \in 1..3 : CodeOf[j][i] = CodeOf[k][i]) => j = k
  <2> SUFFICES ASSUME NEW j \in 1..29, NEW k \in 1..29, \A i \in 1..3 : CodeOf[j][i] = CodeOf[k][i]
               PROVE  j = k
    OBVIOUS
  <2>1. CodeOf[j][1] = CodeOf[k][1] /\ CodeOf[j][2] = CodeOf[k][2] /\ CodeOf[j][3] = CodeOf[k][3]
    OBVIOUS
  <2> QED
    BY <2>1, CodesDiffer
<1>4. \A k \in 1..29 : \A i \in 1..3 : Lower(CodeOf[k][i]) = CodeOf[k][i]
  BY <1>2, LowerFacts
<1> QED
  BY <1>1, <1>3, <1>4

\* What is put before a sequence comes first.
LEMMA OneMore ==
  ASSUME NEW S, NEW a \in S, NEW w \in Seq(S)
  PROVE  /\ <<a>> \o w \in Seq(S)
         /\ Len(<<a>> \o w) = Len(w) + 1
         /\ (<<a>> \o w)[1] = a
         /\ \A i \in 1..Len(w) : (<<a>> \o w)[i + 1] = w[i]
  OBVIOUS

IsCoded(c) == \E k \in 1..29 : Character[k] = c
CodeNumber(c) == CHOOSE k \in 1..29 : Character[k] = c

\* The parts of the code of a character.
LEMMA CodeParts ==
  ASSUME NEW c \in Char
  PROVE  /\ Code(c) \in Seq(Char)
         /\ IsCoded(c) => /\ CodeNumber(c) \in 1..29 /\ Character[CodeNumber(c)] = c
                          /\ Len(Code(c)) = 4 /\ Code(c)[1] = Character[1]
                          /\ \A i \in 1..3 : Code(c)[i + 1] = CodeOf[CodeNumber(c)][i]
         /\ ~IsCoded(c) => Code(c) = <<c>>
<1> DEFINE und == "_"
<1>1. Code(c) = IF IsCoded(c) THEN <<und>> \o CodeOf[CodeNumber(c)] ELSE <<c>>
  BY Zenon DEF Code, IsCoded, CodeNumber
<1>2. und = Character[1]
  BY UnderscoreAndSpace, Zenon
<1> HIDE DEF und
<1>3. und \in Char
  <2>1. 1 \in 1..29
    OBVIOUS
  <2>2. Character[1] \in Char
    BY <2>1, CharacterFacts, Zenon
  <2> QED
    BY <1>2, <2>2
<1>4. ASSUME IsCoded(c)
      PROVE  /\ CodeNumber(c) \in 1..29 /\ Character[CodeNumber(c)] = c
             /\ Code(c) \in Seq(Char) /\ Len(Code(c)) = 4 /\ Code(c)[1] = und
             /\ \A i \in 1..3 : Code(c)[i + 1] = CodeOf[CodeNumber(c)][i]
  <2>1. CodeNumber(c) \in 1..29 /\ Character[CodeNumber(c)] = c
    BY <1>4 DEF IsCoded, CodeNumber
  <2> DEFINE w == CodeOf[CodeNumber(c)]
  <2>2. w \in Seq(Char) /\ Len(w) = 3
    BY <2>1, CodeOfFacts
  <2>3. Code(c) = <<und>> \o w
    BY <1>1, <1>4
  <2> HIDE DEF w
  <2>4. Code(c) \in Seq(Char) /\ Len(Code(c)) = 4 /\ Code(c)[1] = und
        /\ \A i \in 1..3 : Code(c)[i + 1] = w[i]
    BY <1>3, <2>2, <2>3, OneMore
  <2> QED
    BY <2>1, <2>4 DEF w
<1>5. ~IsCoded(c) => Code(c) = <<c>> /\ Code(c) \in Seq(Char)
  BY <1>1
<1> QED
  BY <1>2, <1>4, <1>5

\* No code begins another, since what has no code is no underscore.
LEMMA CodesApart ==
  ASSUME NEW c \in Char, NEW d \in Char, Code(c)[1] = Code(d)[1]
  PROVE  /\ Len(Code(c)) = Len(Code(d))
         /\ (\A i \in 1..Len(Code(c)) : Code(c)[i] = Code(d)[i]) => c = d
<1>1. IsCoded(c) <=> IsCoded(d)
  <2>1. IsCoded(Character[1])
    BY DEF IsCoded
  <2> QED
    BY <2>1, CodeParts
<1>2. CASE IsCoded(c)
  <2>1. ASSUME \A i \in 1..4 : Code(c)[i] = Code(d)[i] PROVE c = d
    <3>1. \A i \in 1..3 : CodeOf[CodeNumber(c)][i] = CodeOf[CodeNumber(d)][i]
      <4> TAKE i \in 1..3
      <4>1. i + 1 \in 1..4
        OBVIOUS
      <4> QED
        BY <1>1, <1>2, <2>1, <4>1, CodeParts
    <3>2. CodeNumber(c) = CodeNumber(d)
      <4>1. CodeNumber(c) \in 1..29 /\ CodeNumber(d) \in 1..29
        BY <1>1, <1>2, CodeParts
      <4> QED
        BY <3>1, <4>1, CodeOfFacts
    <3> QED
      BY <1>1, <1>2, <3>2, CodeParts
  <2> QED
    BY <1>1, <1>2, <2>1, CodeParts
<1>3. CASE ~IsCoded(c)
  BY <1>1, <1>3, CodeParts
<1> QED
  BY <1>2, <1>3

\* Case and codes do not meet.
LEMMA LowerCodes ==
  ASSUME NEW c \in Char
  PROVE  /\ Lower(c) \in Char
         /\ Len(Code(Lower(c))) = Len(Code(c))
         /\ \A i \in 1..Len(Code(c)) : Lower(Code(c)[i]) = Code(Lower(c))[i]
         /\ Lower(c) = Character[2] <=> c = Character[2]
<1>1. \A k \in 1..26 : LowerCase[k] \in Char
  BY Zenon DEF Char
<1>2. CASE \E k \in 1..26 : UpperCase[k] = c
  <2>1. PICK k \in 1..26 : UpperCase[k] = c
    BY <1>2
  <2>2. Lower(c) = LowerCase[k] /\ Lower(c) \in Char
    BY <1>1, <2>1, LowerFacts
  <2>3. ~IsCoded(c) /\ ~IsCoded(Lower(c))
    BY <2>1, <2>2, CharacterFacts DEF IsCoded
  <2>4. Code(c) = <<c>> /\ Code(Lower(c)) = <<Lower(c)>>
    BY <2>2, <2>3, CodeParts
  <2>5. Lower(c) # Character[2] /\ c # Character[2]
    BY <2>3 DEF IsCoded
  <2> QED
    BY <2>2, <2>4, <2>5
<1>3. CASE ~\E k \in 1..26 : UpperCase[k] = c
  <2>1. Lower(c) = c
    BY <1>3, LowerFacts
  <2>2. ASSUME NEW i \in 1..Len(Code(c)) PROVE Lower(Code(c)[i]) = Code(c)[i]
    <3>1. CASE ~IsCoded(c)
      BY <2>1, <3>1, CodeParts
    <3>2. CASE IsCoded(c)
      <4>1. Lower(Character[1]) = Character[1]
        <5>1. 1 \in 1..29
          OBVIOUS
        <5>2. \A j \in 1..26 : UpperCase[j] # Character[1]
          BY <5>1, CharacterFacts, Zenon
        <5> QED
          BY <5>2, LowerFacts, Zenon
      <4>2. Code(c)[1] = Character[1] /\ Len(Code(c)) = 4 /\ CodeNumber(c) \in 1..29
            /\ \A j \in 1..3 : Code(c)[j + 1] = CodeOf[CodeNumber(c)][j]
        BY <3>2, CodeParts
      <4>3. CASE i = 1
        BY <4>1, <4>2, <4>3, Zenon
      <4>4. CASE i # 1
        <5>1. i - 1 \in 1..3 /\ (i - 1) + 1 = i
          BY <4>2, <4>4
        <5>2. Code(c)[i] = CodeOf[CodeNumber(c)][i - 1]
          BY <4>2, <5>1
        <5>3. Lower(CodeOf[CodeNumber(c)][i - 1]) = CodeOf[CodeNumber(c)][i - 1]
          BY <4>2, <5>1, CodeOfFacts, Zenon
        <5> QED
          BY <5>2, <5>3, Zenon
      <4> QED
        BY <4>3, <4>4
    <3> QED
      BY <3>1, <3>2
  <2> QED
    BY <2>1, <2>2
<1> QED
  BY <1>2, <1>3

-----------------------------------------------------------------------------
(* Sequences in pieces. *)

\* The first n pieces in one.
Joining(p) ==
  LET flatten[i \in 1..Len(p)] == IF i = 1 THEN p[i] ELSE flatten[i - 1] \o p[i] IN flatten
Joined(p, n) == IF n = 0 THEN <<>> ELSE Joining(p)[n]

\* The function that FlattenSeq defines exists.
LEMMA JoiningSteps ==
  ASSUME NEW p, NEW L \in Nat, Len(p) = L
  PROVE  \A n \in 1..L : Joining(p)[n] = IF n = 1 THEN p[n] ELSE Joining(p)[n - 1] \o p[n]
<1> DEFINE Upto(g, k) == g = [n \in 1..k |-> IF n = 1 THEN p[n] ELSE g[n - 1] \o p[n]]
           Defined == {k \in Nat : \E g : Upto(g, k)}
<1>1. 0 \in Defined
  <2>1. Upto([n \in 1..0 |-> 0], 0)
    OBVIOUS
  <2> QED
    BY <2>1
<1>2. ASSUME NEW k \in 0..(L - 1), k \in Defined
      PROVE  k + 1 \in Defined
  <2>1. PICK g : Upto(g, k)
    BY <1>2
  <2> DEFINE h == [n \in 1..(k + 1) |->
                     IF n = k + 1 THEN IF n = 1 THEN p[n] ELSE g[k] \o p[n] ELSE g[n]]
  <2>2. \A n \in 1..k : h[n] = g[n]
    OBVIOUS
  <2>3. h[k + 1] = IF k + 1 = 1 THEN p[k + 1] ELSE h[(k + 1) - 1] \o p[k + 1]
    <3>1. h[k + 1] = IF k + 1 = 1 THEN p[k + 1] ELSE g[k] \o p[k + 1]
      OBVIOUS
    <3>2. k + 1 # 1 => h[k] = g[k]
      BY <2>2
    <3>3. (k + 1) - 1 = k
      OBVIOUS
    <3> HIDE DEF h
    <3> QED
      BY <3>1, <3>2, <3>3
  <2>4. \A n \in 1..k : h[n] = IF n = 1 THEN p[n] ELSE h[n - 1] \o p[n]
    <3> SUFFICES ASSUME NEW n \in 1..k
                 PROVE  h[n] = IF n = 1 THEN p[n] ELSE h[n - 1] \o p[n]
      OBVIOUS
    <3>1. h[n] = g[n] /\ (n # 1 => h[n - 1] = g[n - 1])
      BY <2>2
    <3>2. g[n] = IF n = 1 THEN p[n] ELSE g[n - 1] \o p[n]
      BY <2>1
    <3> HIDE DEF h
    <3> QED
      BY <3>1, <3>2
  <2>5. h = [n \in 1..(k + 1) |-> h[n]]
    OBVIOUS
  <2> HIDE DEF h
  <2>6. \A n \in 1..(k + 1) : h[n] = IF n = 1 THEN p[n] ELSE h[n - 1] \o p[n]
    BY <2>3, <2>4
  <2>7. Upto(h, k + 1)
    BY <2>5, <2>6
  <2>8. k + 1 \in Nat
    OBVIOUS
  <2> HIDE DEF Upto
  <2> QED
    BY <2>7, <2>8
<1>3. \E g : Upto(g, L)
  <2> HIDE DEF Defined
  <2>1. \A k \in 0..(L - 1) : k \in Defined => k + 1 \in Defined
    BY <1>2
  <2>2. \A k \in 0..L : k \in Defined
    BY <1>1, <2>1, Reaches
  <2>3. L \in Defined
    BY <2>2
  <2> QED
    BY <2>3 DEF Defined
<1>4. Upto(Joining(p), L)
  <2>1. Joining(p) = CHOOSE g : Upto(g, L)
    BY DEF Joining
  <2> HIDE DEF Upto
  <2> QED
    BY <1>3, <2>1
<1> QED
  BY <1>4

\* What FlattenSeq does, piece by piece.
LEMMA JoinedSteps ==
  ASSUME NEW S, NEW p \in Seq(Seq(S)), NEW L \in Nat, L = Len(p)
  PROVE  /\ FlattenSeq(p) = Joined(p, L)
         /\ Joined(p, 0) = <<>>
         /\ \A n \in 1..L : /\ Joined(p, n) = Joined(p, n - 1) \o p[n]
                            /\ p[n] \in Seq(S)
         /\ \A n \in 0..L : Joined(p, n) \in Seq(S)
<1>1. Joined(p, 0) = <<>> /\ \A n \in 1..L : Joined(p, n) = Joining(p)[n]
  BY DEF Joined
<1>2. \A n \in 1..L : Joining(p)[n] = IF n = 1 THEN p[n] ELSE Joining(p)[n - 1] \o p[n]
  BY JoiningSteps
<1>3. \A n \in 1..L : p[n] \in Seq(S)
  BY ElementOfSeq
<1>4. FlattenSeq(p) = Joined(p, L)
  <2>1. FlattenSeq(p) = IF Len(p) = 0 THEN p ELSE Joining(p)[Len(p)]
    BY DEF FlattenSeq, Joining
  <2>2. L = 0 => p = <<>>
    BY EmptySeq
  <2> QED
    BY <1>1, <2>1, <2>2
<1>5. \A n \in 1..L : Joined(p, n) = Joined(p, n - 1) \o p[n]
  <2> SUFFICES ASSUME NEW n \in 1..L PROVE Joined(p, n) = Joined(p, n - 1) \o p[n]
    OBVIOUS
  <2>1. CASE n = 1
    <3>1. p[1] \in Seq(S) /\ <<>> \o p[1] = p[1]
      BY <1>3, <2>1, ConcatEmptySeq
    <3>2. Joined(p, 1) = p[1] /\ Joined(p, 1 - 1) = <<>>
      BY <1>1, <1>2, <2>1
    <3> QED
      BY <2>1, <3>1, <3>2
  <2>2. CASE n # 1
    <3>1. n - 1 \in 1..L
      BY <2>2
    <3> QED
      BY <1>1, <1>2, <2>2, <3>1
  <2> QED
    BY <2>1, <2>2
<1>6. \A n \in 0..L : Joined(p, n) \in Seq(S)
  <2> DEFINE Good == {n \in Nat : Joined(p, n) \in Seq(S)}
  <2>1. 0 \in Good
    BY <1>1, EmptySeq
  <2>2. ASSUME NEW n \in 0..(L - 1), n \in Good PROVE n + 1 \in Good
    <3>1. n + 1 \in 1..L /\ n + 1 \in Nat /\ (n + 1) - 1 = n
      OBVIOUS
    <3>2. p[n + 1] \in Seq(S)
      BY <1>3, <3>1
    <3>3. Joined(p, n + 1) = Joined(p, n) \o p[n + 1]
      <4>1. Joined(p, n + 1) = Joined(p, (n + 1) - 1) \o p[n + 1]
        BY <1>5, <3>1
      <4> QED
        BY <3>1, <4>1
    <3>4. Joined(p, n) \in Seq(S)
      BY <2>2
    <3> HIDE DEF Good
    <3>5. Joined(p, n) \o p[n + 1] \in Seq(S)
      BY <3>2, <3>4, ConcatProperties
    <3>6. Joined(p, n + 1) \in Seq(S)
      BY <3>3, <3>5
    <3> QED
      BY <3>1, <3>6 DEF Good
  <2>3. \A n \in 0..(L - 1) : n \in Good => n + 1 \in Good
    BY <2>2
  <2> HIDE DEF Good
  <2>4. \A n \in 0..L : n \in Good
    BY <2>1, <2>3, Reaches
  <2> QED
    BY <2>4 DEF Good
<1> QED
  BY <1>1, <1>3, <1>4, <1>5, <1>6

\* The same, of one of the pieces.
LEMMA JoinedStep ==
  ASSUME NEW S, NEW p \in Seq(Seq(S)), NEW n \in 1..Len(p)
  PROVE  Joined(p, n) = Joined(p, n - 1) \o p[n] /\ p[n] \in Seq(S) /\ Joined(p, n - 1) \in Seq(S)
<1> DEFINE L == Len(p)
<1>1. L \in Nat /\ L = Len(p) /\ n \in 1..L /\ n - 1 \in 0..L
  BY LenProperties
<1> HIDE DEF L
<1>2. \A k \in 1..L : Joined(p, k) = Joined(p, k - 1) \o p[k] /\ p[k] \in Seq(S)
  BY <1>1, JoinedSteps
<1>3. \A k \in 0..L : Joined(p, k) \in Seq(S)
  BY <1>1, JoinedSteps
<1> QED
  BY <1>1, <1>2, <1>3

\* A sequence begins another: IsPrefix, element by element.
Begins(s, t) == Len(s) <= Len(t) /\ \A i \in 1..Len(s) : s[i] = t[i]

LEMMA PrefixBegins ==
  ASSUME NEW S, NEW s \in Seq(S), NEW t \in Seq(S)
  PROVE  IsPrefix(s, t) <=> Begins(s, t)
<1>1. SubSeq(s, 1, Len(s)) = s
  BY SubSeqFull
<1>2. CASE Len(s) <= Len(t)
  <2>1. \A i \in 1..Len(s) : t[i] \in S
    BY <1>2, ElementOfSeq
  <2> DEFINE u == SubSeq(t, 1, Len(s))
  <2>2. u \in Seq(S) /\ Len(u) = Len(s) /\ \A i \in 1..Len(s) : u[i] = t[i]
    BY <2>1, SubSeqProperties
  <2> HIDE DEF u
  <2>3. s = u <=> \A i \in 1..Len(s) : s[i] = t[i]
    BY <2>2, SeqEqual
  <2> QED
    BY <1>1, <1>2, <2>3 DEF u, IsPrefix, Begins
<1>3. CASE ~(Len(s) <= Len(t))
  BY <1>3 DEF IsPrefix, Begins
<1> QED
  BY <1>2, <1>3

\* More pieces only add to the end.
LEMMA JoinedGrows ==
  ASSUME NEW S, NEW p \in Seq(Seq(S)), NEW L \in Nat, L = Len(p), NEW m \in 0..L, NEW n \in m..L
  PROVE  Begins(Joined(p, m), Joined(p, n))
<1> DEFINE Good == {k \in Nat : m + k <= L => Begins(Joined(p, m), Joined(p, m + k))}
<1>1. \A k \in 0..L : Joined(p, k) \in Seq(S) /\ Len(Joined(p, k)) \in Nat
  BY JoinedSteps, LenProperties
<1>2. 0 \in Good
  BY <1>1 DEF Begins
<1>3. ASSUME NEW k \in 0..((L - m) - 1), k \in Good PROVE k + 1 \in Good
  <2>1. k \in Nat /\ m + k \in 0..L /\ m + k + 1 \in 1..L /\ (m + k + 1) - 1 = m + k /\ m + (k + 1) = m + k + 1
    OBVIOUS
  <2> DEFINE s == Joined(p, m + k)
             t == p[m + k + 1]
  <2>2. Joined(p, m + k + 1) = s \o t /\ s \in Seq(S) /\ t \in Seq(S)
    <3> DEFINE j == m + k + 1
    <3>1. j \in 1..Len(p) /\ j - 1 = m + k
      BY <2>1
    <3> HIDE DEF j
    <3>2. Joined(p, j) = Joined(p, j - 1) \o p[j] /\ p[j] \in Seq(S) /\ Joined(p, j - 1) \in Seq(S)
      BY <3>1, JoinedStep
    <3> QED
      BY <3>1, <3>2 DEF j
  <2>3. Begins(Joined(p, m), s)
    BY <1>3, <2>1
  <2> HIDE DEF s, t
  <2>4. Len(s \o t) = Len(s) + Len(t) /\ Len(s) \in Nat /\ Len(t) \in Nat
        /\ \A i \in 1..Len(s) : (s \o t)[i] = s[i]
    BY <2>2, ConcatProperties, LenProperties
  <2>5. Len(Joined(p, m)) \in Nat
    BY <1>1
  <2>6. Begins(Joined(p, m), s \o t)
    BY <2>3, <2>4, <2>5 DEF Begins
  <2>7. Begins(Joined(p, m), Joined(p, m + (k + 1)))
    BY <2>1, <2>2, <2>6
  <2> QED
    BY <2>1, <2>7
<1>4. \A k \in 0..((L - m) - 1) : k \in Good => k + 1 \in Good
  BY <1>3
<1>5. n - m \in Good
  <2> HIDE DEF Good
  <2>1. L - m \in Nat /\ n - m \in 0..(L - m)
    OBVIOUS
  <2>2. \A k \in 0..(L - m) : k \in Good
    BY <1>2, <1>4, <2>1, Reaches
  <2> QED
    BY <2>1, <2>2
<1>6. m + (n - m) = n /\ m + (n - m) <= L
  OBVIOUS
<1> QED
  BY <1>5, <1>6

\* The same pieces make the same.
LEMMA JoinedSame ==
  ASSUME NEW S, NEW p \in Seq(Seq(S)), NEW q \in Seq(Seq(S)), NEW K \in Nat,
         K <= Len(p), K <= Len(q), \A n \in 1..K : p[n] = q[n]
  PROVE  Joined(p, K) = Joined(q, K)
<1> DEFINE Good == {n \in Nat : Joined(p, n) = Joined(q, n)}
<1>1. Len(p) \in Nat /\ Len(q) \in Nat
  BY LenProperties
<1>2. 0 \in Good
  BY <1>1, JoinedSteps
<1>3. ASSUME NEW n \in 0..(K - 1), n \in Good PROVE n + 1 \in Good
  <2>1. n + 1 \in 1..K /\ n + 1 \in 1..Len(p) /\ n + 1 \in 1..Len(q) /\ n + 1 \in Nat /\ (n + 1) - 1 = n
    BY <1>1
  <2>2. Joined(p, n + 1) = Joined(p, n) \o p[n + 1] /\ Joined(q, n + 1) = Joined(q, n) \o q[n + 1]
    BY <2>1, JoinedStep
  <2> QED
    BY <1>3, <2>1, <2>2
<1>4. \A n \in 0..(K - 1) : n \in Good => n + 1 \in Good
  BY <1>3
<1> HIDE DEF Good
<1>5. \A n \in 0..K : n \in Good
  BY <1>2, <1>4, Reaches
<1>6. K \in Good
  BY <1>5
<1> QED
  BY <1>6 DEF Good

-----------------------------------------------------------------------------
(* The encoding of a text. *)

Codings(s) == [n \in DOMAIN s |-> Code(s[n])]
Coded(s) == FlattenSeq(Codings(s))

\* The codes of a text, one by one and joined.
LEMMA CodingsType ==
  ASSUME NEW s \in Seq(Char)
  PROVE  /\ Codings(s) \in Seq(Seq(Char)) /\ Len(Codings(s)) = Len(s) /\ Len(s) \in Nat
         /\ \A n \in 1..Len(s) : Codings(s)[n] = Code(s[n]) /\ s[n] \in Char
         /\ Coded(s) = Joined(Codings(s), Len(s)) /\ Coded(s) \in Seq(Char)
<1>1. Len(s) \in Nat /\ DOMAIN s = 1..Len(s) /\ \A n \in 1..Len(s) : s[n] \in Char
  BY LenProperties, ElementOfSeq
<1>2. \A n \in 1..Len(s) : Code(s[n]) \in Seq(Char)
  BY <1>1, CodeParts
<1>3. Codings(s) \in [1..Len(s) -> Seq(Char)]
  BY <1>1, <1>2 DEF Codings
<1>4. \A n \in 1..Len(s) : Codings(s)[n] = Code(s[n])
  BY <1>1 DEF Codings
<1>5. Codings(s) \in Seq(Seq(Char)) /\ Len(Codings(s)) = Len(s)
  BY <1>1, <1>3
<1>6. Coded(s) = Joined(Codings(s), Len(s)) /\ Joined(Codings(s), Len(s)) \in Seq(Char)
  <2> DEFINE L == Len(s)
             p == Codings(s)
  <2>1. L \in Nat /\ L \in 0..L /\ p \in Seq(Seq(Char)) /\ L = Len(p)
    BY <1>1, <1>5
  <2> HIDE DEF L, p
  <2>2. FlattenSeq(p) = Joined(p, L) /\ Joined(p, L) \in Seq(Char)
    BY <2>1, JoinedSteps
  <2> QED
    BY <2>2 DEF Coded, L, p
<1> QED
  BY <1>1, <1>4, <1>5, <1>6

\* The code of one more character goes to the end.
LEMMA CodedAppend ==
  ASSUME NEW s \in Seq(Char), NEW c \in Char
  PROVE  s \o <<c>> \in Seq(Char) /\ Coded(s \o <<c>>) = Coded(s) \o Code(c)
<1> DEFINE t == s \o <<c>>
           L == Len(s)
<1>1. <<c>> \in Seq(Char) /\ Len(<<c>>) = 1 /\ L \in Nat
  BY LenProperties
<1>2. t \in Seq(Char) /\ Len(t) = L + 1
  BY <1>1, ConcatProperties
<1>3. (\A n \in 1..L : t[n] = s[n]) /\ t[L + 1] = c
  BY <1>1, ConcatProperties
<1> HIDE DEF t
<1>4. /\ Codings(s) \in Seq(Seq(Char)) /\ Len(Codings(s)) = L
      /\ Codings(t) \in Seq(Seq(Char)) /\ Len(Codings(t)) = L + 1
      /\ Coded(s) = Joined(Codings(s), L) /\ Coded(t) = Joined(Codings(t), L + 1)
  BY <1>2, CodingsType
<1>5. \A n \in 1..L : Codings(s)[n] = Codings(t)[n]
  <2> SUFFICES ASSUME NEW n \in 1..L PROVE Codings(s)[n] = Codings(t)[n]
    OBVIOUS
  <2>1. n \in 1..Len(t)
    BY <1>1, <1>2
  <2>2. Codings(s)[n] = Code(s[n])
    BY CodingsType
  <2>3. Codings(t)[n] = Code(t[n])
    BY <1>2, <2>1, CodingsType
  <2> QED
    BY <1>3, <2>2, <2>3
<1>6. Codings(t)[L + 1] = Code(c)
  <2>1. L + 1 \in 1..Len(t)
    BY <1>1, <1>2
  <2> QED
    BY <1>2, <1>3, <2>1, CodingsType
<1> HIDE DEF L
<1>7. Joined(Codings(t), L) = Joined(Codings(s), L)
  <2>1. L <= Len(Codings(s)) /\ L <= Len(Codings(t))
    BY <1>1, <1>4
  <2> QED
    BY <1>1, <1>4, <1>5, <2>1, JoinedSame
<1>8. Joined(Codings(t), L + 1) = Joined(Codings(t), L) \o Codings(t)[L + 1]
  <2>1. L + 1 \in 1..(L + 1) /\ (L + 1) - 1 = L /\ L + 1 \in Nat
    BY <1>1
  <2> QED
    BY <1>4, <2>1, JoinedSteps
<1> QED
  BY <1>2, <1>4, <1>6, <1>7, <1>8 DEF t

\* What begins the beginning of a text begins the text.
LEMMA BeginsTransitive ==
  ASSUME NEW S, NEW s \in Seq(S), NEW t \in Seq(S), NEW u \in Seq(S), Begins(s, t), Begins(t, u)
  PROVE  Begins(s, u)
<1>1. Len(s) \in Nat /\ Len(t) \in Nat /\ Len(u) \in Nat
  BY LenProperties
<1> QED
  BY <1>1 DEF Begins

\* What codes begin with, and how long they are.
LEMMA CodeLength == ASSUME NEW c \in Char PROVE Code(c) \in Seq(Char) /\ Len(Code(c)) \in Nat \ {0}
<1>1. Len(<<c>>) = 1
  OBVIOUS
<1> QED
  BY <1>1, CodeParts

\* One text begins another if, and only if, the encoding of the one begins that of the other.
LEMMA PrefixCode ==
  ASSUME NEW s \in Seq(Char), NEW t \in Seq(Char)
  PROVE  Begins(Coded(s), Coded(t)) <=> Begins(s, t)
<1> DEFINE L == Len(s)
           M == Len(t)
           p == Codings(s)
           q == Codings(t)
<1>1. L \in Nat /\ M \in Nat
  BY LenProperties
<1>2. p \in Seq(Seq(Char)) /\ q \in Seq(Seq(Char)) /\ Len(p) = L /\ Len(q) = M
  BY CodingsType
<1>3. Coded(s) = Joined(p, L) /\ Coded(t) = Joined(q, M)
  BY CodingsType
<1>4. /\ \A n \in 1..L : p[n] = Code(s[n]) /\ s[n] \in Char
      /\ \A n \in 1..M : q[n] = Code(t[n]) /\ t[n] \in Char
  BY CodingsType
<1> HIDE DEF L, M, p, q
<1>5. ASSUME NEW k \in Nat, k <= L, k <= M, \A n \in 1..k : s[n] = t[n]
      PROVE  Joined(p, k) = Joined(q, k)
  <2>1. \A n \in 1..k : p[n] = q[n]
    <3> TAKE n \in 1..k
    <3>1. n \in 1..L /\ n \in 1..M
      BY <1>1, <1>5
    <3> QED
      BY <1>4, <1>5, <3>1
  <2> QED
    BY <1>2, <1>5, <2>1, JoinedSame
<1>6. ASSUME Begins(s, t) PROVE Begins(Coded(s), Coded(t))
  <2>1. L <= M /\ \A n \in 1..L : s[n] = t[n]
    BY <1>6 DEF Begins, L, M
  <2>2. Joined(p, L) = Joined(q, L)
    BY <1>1, <1>5, <2>1
  <2>3. L \in 0..M /\ M \in L..M
    BY <1>1, <2>1
  <2>4. Begins(Joined(q, L), Joined(q, M))
    BY <1>1, <1>2, <2>3, JoinedGrows
  <2> QED
    BY <1>3, <2>2, <2>4
<1>7. ASSUME Begins(Coded(s), Coded(t)) PROVE Begins(s, t)
  <2> DEFINE Good == {k \in Nat : k <= L => k <= M /\ \A n \in 1..k : s[n] = t[n]}
  <2>1. 0 \in Good
    BY <1>1
  <2>2. ASSUME NEW k \in 0..(L - 1), k \in Good PROVE k + 1 \in Good
    <3> DEFINE j == k + 1
               P == Joined(p, k)
    <3>1. k \in Nat /\ k <= L /\ j \in 1..L /\ j \in 0..L /\ L \in j..L /\ j - 1 = k /\ k \in 0..L
      BY <1>1
    <3>2. k <= M /\ \A n \in 1..k : s[n] = t[n]
      BY <2>2, <3>1
    <3>3. Joined(q, k) = P
      BY <1>5, <3>1, <3>2
    <3>4. Joined(p, j) = P \o Code(s[j]) /\ s[j] \in Char /\ P \in Seq(Char)
      <4>1. j \in 1..Len(p)
        BY <1>2, <3>1
      <4> HIDE DEF P, j
      <4>2. Joined(p, j) = Joined(p, j - 1) \o p[j] /\ Joined(p, j - 1) \in Seq(Char)
        BY <1>2, <4>1, JoinedStep
      <4>3. p[j] = Code(s[j]) /\ s[j] \in Char
        BY <1>4, <3>1
      <4>4. Joined(p, j - 1) = P
        BY <3>1 DEF P
      <4> QED
        BY <4>2, <4>3, <4>4
    <3>5. Begins(Joined(p, j), Coded(s))
      BY <1>1, <1>2, <1>3, <3>1, JoinedGrows
    <3>6. /\ Coded(s) \in Seq(Char) /\ Coded(t) \in Seq(Char)
      BY CodingsType
    <3> HIDE DEF P, j
    <3>7. Code(s[j]) \in Seq(Char) /\ Len(Code(s[j])) \in Nat \ {0} /\ Len(P) \in Nat
      BY <3>4, CodeLength, LenProperties
    <3>8. /\ P \o Code(s[j]) \in Seq(Char)
          /\ Len(P \o Code(s[j])) = Len(P) + Len(Code(s[j]))
          /\ \A i \in 1..Len(Code(s[j])) : (P \o Code(s[j]))[Len(P) + i] = Code(s[j])[i]
      BY <3>4, <3>7, ConcatProperties
    <3>9. Begins(P \o Code(s[j]), Coded(t))
      BY <1>7, <3>4, <3>5, <3>6, <3>8, BeginsTransitive
    <3>10. k # M
      <4> SUFFICES ASSUME k = M PROVE FALSE
        OBVIOUS
      <4>1. Coded(t) = P
        BY <1>3, <3>3
      <4> QED
        BY <3>7, <3>8, <3>9, <4>1 DEF Begins
    <3>11. j \in 1..M /\ j \in 0..M /\ M \in j..M
      BY <1>1, <3>1, <3>2, <3>10 DEF j
    <3>12. Joined(q, j) = P \o Code(t[j]) /\ t[j] \in Char
      <4>1. Joined(q, j) = Joined(q, j - 1) \o q[j]
        BY <1>2, <3>11, JoinedStep
      <4> QED
        BY <1>4, <3>1, <3>3, <3>11, <4>1
    <3>13. Begins(P \o Code(t[j]), Coded(t))
      BY <1>1, <1>2, <1>3, <3>11, <3>12, JoinedGrows
    <3>14. Code(t[j]) \in Seq(Char) /\ Len(Code(t[j])) \in Nat \ {0}
      BY <3>12, CodeLength
    <3>15. /\ Len(P \o Code(t[j])) = Len(P) + Len(Code(t[j]))
           /\ \A i \in 1..Len(Code(t[j])) : (P \o Code(t[j]))[Len(P) + i] = Code(t[j])[i]
      BY <3>4, <3>7, <3>14, ConcatProperties
    <3>16. \A i \in 1..Len(Code(s[j])) : Coded(t)[Len(P) + i] = Code(s[j])[i]
      <4> SUFFICES ASSUME NEW i \in 1..Len(Code(s[j])) PROVE Coded(t)[Len(P) + i] = Code(s[j])[i]
        OBVIOUS
      <4>1. Len(P) + i \in 1..Len(P \o Code(s[j]))
        BY <3>7, <3>8
      <4>2. (P \o Code(s[j]))[Len(P) + i] = Coded(t)[Len(P) + i]
        BY <3>9, <4>1 DEF Begins
      <4> QED
        BY <3>8, <4>2
    <3>17. \A i \in 1..Len(Code(t[j])) : Coded(t)[Len(P) + i] = Code(t[j])[i]
      <4> SUFFICES ASSUME NEW i \in 1..Len(Code(t[j])) PROVE Coded(t)[Len(P) + i] = Code(t[j])[i]
        OBVIOUS
      <4>1. Len(P) + i \in 1..Len(P \o Code(t[j]))
        BY <3>7, <3>14, <3>15
      <4>2. (P \o Code(t[j]))[Len(P) + i] = Coded(t)[Len(P) + i]
        BY <3>13, <4>1 DEF Begins
      <4> QED
        BY <3>15, <4>2
    <3>18. Code(s[j])[1] = Code(t[j])[1]
      BY <3>7, <3>14, <3>16, <3>17
    <3>19. Len(Code(s[j])) = Len(Code(t[j]))
      BY <3>4, <3>12, <3>18, CodesApart
    <3>20. \A i \in 1..Len(Code(s[j])) : Code(s[j])[i] = Code(t[j])[i]
      BY <3>16, <3>17, <3>19
    <3>21. s[j] = t[j]
      BY <3>4, <3>12, <3>18, <3>20, CodesApart
    <3>22. \A n \in 1..j : n = j \/ n \in 1..k
      BY <3>1 DEF j
    <3>23. j <= M /\ \A n \in 1..j : s[n] = t[n]
      BY <3>2, <3>11, <3>21, <3>22
    <3>24. j \in Nat
      BY <3>11
    <3> QED
      BY <3>23, <3>24 DEF j
  <2>3. \A k \in 0..(L - 1) : k \in Good => k + 1 \in Good
    BY <2>2
  <2>4. L \in Good
    <3> HIDE DEF Good
    <3>1. \A k \in 0..L : k \in Good
      BY <1>1, <2>1, <2>3, Reaches
    <3> QED
      BY <1>1, <3>1
  <2> QED
    BY <2>4 DEF Begins, L, M
<1> QED
  BY <1>6, <1>7

\* A space after a space, by the number of its code.
LEMMA RepeatedFacts ==
  ASSUME NEW text, NEW n
  PROVE  Repeated(text, n) <=> n > 1 /\ text[n] = Character[2] /\ text[n - 1] = Character[2]
BY UnderscoreAndSpace, Zenon DEF Repeated

\* A function on 1..L is a sequence.
LEMMA IsSequence ==
  ASSUME NEW S, NEW L \in Nat, NEW f \in [1..L -> S]
  PROVE  f \in Seq(S) /\ Len(f) = L
OBVIOUS

Pieces(text) == [n \in DOMAIN text |-> IF Repeated(text, n) THEN <<>> ELSE Code(text[n])]
Letters(text) == [n \in DOMAIN text |-> IF Repeated(text, n) THEN <<>> ELSE <<text[n]>>]

\* The pieces that Encode and Squeezed join.
LEMMA PiecesType ==
  ASSUME NEW text \in Seq(Char), NEW L \in Nat, L = Len(text)
  PROVE  /\ Pieces(text) \in Seq(Seq(Char)) /\ Len(Pieces(text)) = L
         /\ Letters(text) \in Seq(Seq(Char)) /\ Len(Letters(text)) = L
         /\ \A n \in 1..L :
              /\ text[n] \in Char
              /\ Pieces(text)[n] = IF Repeated(text, n) THEN <<>> ELSE Code(text[n])
              /\ Letters(text)[n] = IF Repeated(text, n) THEN <<>> ELSE <<text[n]>>
         /\ Encode(text) = Joined(Pieces(text), L) /\ Encode(text) \in Seq(Char)
         /\ Squeezed(text) = Joined(Letters(text), L) /\ Squeezed(text) \in Seq(Char)
<1>1. DOMAIN text = 1..L /\ \A n \in 1..L : text[n] \in Char
  BY LenProperties, ElementOfSeq
<1>2. \A n \in 1..L : /\ Pieces(text)[n] = IF Repeated(text, n) THEN <<>> ELSE Code(text[n])
                      /\ Letters(text)[n] = IF Repeated(text, n) THEN <<>> ELSE <<text[n]>>
  BY <1>1 DEF Pieces, Letters
<1>3. \A n \in 1..L : Pieces(text)[n] \in Seq(Char) /\ Letters(text)[n] \in Seq(Char)
  <2> SUFFICES ASSUME NEW n \in 1..L
               PROVE  Pieces(text)[n] \in Seq(Char) /\ Letters(text)[n] \in Seq(Char)
    OBVIOUS
  <2>1. <<>> \in Seq(Char)
    BY EmptySeq
  <2>2. Code(text[n]) \in Seq(Char) /\ <<text[n]>> \in Seq(Char)
    BY <1>1, CodeParts
  <2> QED
    BY <1>2, <2>1, <2>2
<1>4. DOMAIN Pieces(text) = 1..L /\ DOMAIN Letters(text) = 1..L
  BY <1>1 DEF Pieces, Letters
<1>5. Pieces(text) \in [1..L -> Seq(Char)] /\ Letters(text) \in [1..L -> Seq(Char)]
  <2>1. /\ Pieces(text) = [n \in 1..L |-> Pieces(text)[n]]
        /\ Letters(text) = [n \in 1..L |-> Letters(text)[n]]
    BY <1>1, Zenon DEF Pieces, Letters
  <2> QED
    BY <1>3, <2>1
<1>6. /\ Pieces(text) \in Seq(Seq(Char)) /\ Len(Pieces(text)) = L
      /\ Letters(text) \in Seq(Seq(Char)) /\ Len(Letters(text)) = L
  BY <1>5, IsSequence
<1>7. Encode(text) = FlattenSeq(Pieces(text)) /\ Squeezed(text) = FlattenSeq(Letters(text))
  BY Zenon DEF Encode, Squeezed, Pieces, Letters
<1>8. L \in 0..L
  OBVIOUS
<1>9. /\ FlattenSeq(Pieces(text)) = Joined(Pieces(text), L) /\ Joined(Pieces(text), L) \in Seq(Char)
      /\ FlattenSeq(Letters(text)) = Joined(Letters(text), L) /\ Joined(Letters(text), L) \in Seq(Char)
  BY <1>6, <1>8, JoinedSteps
<1> QED
  BY <1>1, <1>2, <1>6, <1>7, <1>9

\* The encoding of a text is that of the text with its runs of spaces squeezed.
LEMMA EncodeSqueezed ==
  ASSUME NEW text \in Seq(Char)
  PROVE  Encode(text) = Coded(Squeezed(text))
<1> DEFINE L == Len(text)
           p == Pieces(text)
           q == Letters(text)
           Good == {n \in Nat : Joined(p, n) = Coded(Joined(q, n))}
<1>1. L \in Nat /\ L = Len(text)
  BY LenProperties
<1> HIDE DEF L
<1>2. p \in Seq(Seq(Char)) /\ Len(p) = L /\ q \in Seq(Seq(Char)) /\ Len(q) = L
  BY <1>1, PiecesType
<1>3. \A n \in 1..L : /\ text[n] \in Char
                      /\ p[n] = IF Repeated(text, n) THEN <<>> ELSE Code(text[n])
                      /\ q[n] = IF Repeated(text, n) THEN <<>> ELSE <<text[n]>>
  BY <1>1, PiecesType
<1>4. Encode(text) = Joined(p, L) /\ Squeezed(text) = Joined(q, L)
  BY <1>1, PiecesType
<1> HIDE DEF p, q
<1>5. /\ Joined(p, 0) = <<>> /\ Joined(q, 0) = <<>>
      /\ \A n \in 1..L : Joined(p, n) = Joined(p, n - 1) \o p[n] /\ Joined(q, n) = Joined(q, n - 1) \o q[n]
      /\ \A n \in 0..L : Joined(p, n) \in Seq(Char) /\ Joined(q, n) \in Seq(Char)
  <2>1. /\ Joined(p, 0) = <<>> /\ \A n \in 0..L : Joined(p, n) \in Seq(Char)
        /\ \A n \in 1..L : Joined(p, n) = Joined(p, n - 1) \o p[n]
    BY <1>1, <1>2, JoinedSteps
  <2>2. /\ Joined(q, 0) = <<>> /\ \A n \in 0..L : Joined(q, n) \in Seq(Char)
        /\ \A n \in 1..L : Joined(q, n) = Joined(q, n - 1) \o q[n]
    BY <1>1, <1>2, JoinedSteps
  <2> QED
    BY <2>1, <2>2
<1>6. 0 \in Good
  <2>1. Len(<<>>) = 0 /\ <<>> \in Seq(Char)
    BY EmptySeq
  <2>2. Len(Codings(<<>>)) = 0 /\ Coded(<<>>) = Joined(Codings(<<>>), 0)
    BY <2>1, CodingsType
  <2>3. Coded(<<>>) = <<>>
    BY <2>2 DEF Joined
  <2> QED
    BY <1>5, <2>3
<1>7. ASSUME NEW n \in 0..(L - 1), n \in Good PROVE n + 1 \in Good
  <2>1. n + 1 \in 1..L /\ n + 1 \in Nat /\ (n + 1) - 1 = n /\ n \in 0..L
    BY <1>1
  <2> DEFINE x == Joined(p, n)
             y == Joined(q, n)
             c == text[n + 1]
  <2>2. x = Coded(y) /\ x \in Seq(Char) /\ y \in Seq(Char) /\ c \in Char
    BY <1>3, <1>5, <1>7, <2>1
  <2>3. Joined(p, n + 1) = x \o p[n + 1] /\ Joined(q, n + 1) = y \o q[n + 1]
    BY <1>5, <2>1
  <2>4. /\ p[n + 1] = IF Repeated(text, n + 1) THEN <<>> ELSE Code(c)
        /\ q[n + 1] = IF Repeated(text, n + 1) THEN <<>> ELSE <<c>>
    BY <1>3, <2>1
  <2> HIDE DEF x, y, c
  <2>5. x \o <<>> = x /\ y \o <<>> = y
    BY <2>2, ConcatEmptySeq
  <2>6. Coded(y \o <<c>>) = x \o Code(c)
    BY <2>2, CodedAppend
  <2>7. Joined(p, n + 1) = Coded(Joined(q, n + 1))
    BY <2>2, <2>3, <2>4, <2>5, <2>6
  <2> QED
    BY <2>1, <2>7
<1>8. \A n \in 0..(L - 1) : n \in Good => n + 1 \in Good
  BY <1>7
<1>9. L \in Good
  <2> HIDE DEF Good
  <2>1. \A n \in 0..L : n \in Good
    BY <1>1, <1>6, <1>8, Reaches
  <2> QED
    BY <1>1, <2>1
<1> QED
  BY <1>4, <1>9

\* A text in small letters.
LEMMA LowerType ==
  ASSUME NEW s \in Seq(Char)
  PROVE  /\ toLowerCase(s) \in Seq(Char) /\ Len(toLowerCase(s)) = Len(s) /\ Len(s) \in Nat
         /\ \A n \in 1..Len(s) : toLowerCase(s)[n] = Lower(s[n]) /\ s[n] \in Char
<1>1. Len(s) \in Nat /\ DOMAIN s = 1..Len(s) /\ \A n \in 1..Len(s) : s[n] \in Char
  BY LenProperties, ElementOfSeq
<1>2. \A n \in 1..Len(s) : Lower(s[n]) \in Char
  BY <1>1, LowerCodes
<1>3. toLowerCase(s) \in [1..Len(s) -> Char] /\ \A n \in 1..Len(s) : toLowerCase(s)[n] = Lower(s[n])
  BY <1>1, <1>2 DEF toLowerCase
<1> QED
  BY <1>1, <1>3

\* Small letters, of two texts in one.
LEMMA LowerConcat ==
  ASSUME NEW s \in Seq(Char), NEW t \in Seq(Char)
  PROVE  toLowerCase(s \o t) = toLowerCase(s) \o toLowerCase(t)
<1> DEFINE u == s \o t
           v == toLowerCase(s) \o toLowerCase(t)
<1>1. /\ u \in Seq(Char) /\ Len(u) = Len(s) + Len(t) /\ Len(s) \in Nat /\ Len(t) \in Nat
      /\ \A i \in 1..Len(s) + Len(t) : u[i] = IF i <= Len(s) THEN s[i] ELSE t[i - Len(s)]
  BY ConcatProperties, LenProperties
<1>2. /\ toLowerCase(s) \in Seq(Char) /\ Len(toLowerCase(s)) = Len(s)
      /\ toLowerCase(t) \in Seq(Char) /\ Len(toLowerCase(t)) = Len(t)
      /\ \A i \in 1..Len(s) : toLowerCase(s)[i] = Lower(s[i])
      /\ \A i \in 1..Len(t) : toLowerCase(t)[i] = Lower(t[i])
  BY LowerType
<1>3. /\ v \in Seq(Char) /\ Len(v) = Len(s) + Len(t)
      /\ \A i \in 1..Len(s) + Len(t) :
           v[i] = IF i <= Len(s) THEN toLowerCase(s)[i] ELSE toLowerCase(t)[i - Len(s)]
  <2> DEFINE a == toLowerCase(s)
             b == toLowerCase(t)
  <2>1. a \in Seq(Char) /\ b \in Seq(Char) /\ Len(a) = Len(s) /\ Len(b) = Len(t)
    BY <1>2
  <2> HIDE DEF a, b
  <2>2. /\ a \o b \in Seq(Char) /\ Len(a \o b) = Len(a) + Len(b)
        /\ \A i \in 1..Len(a) + Len(b) : (a \o b)[i] = IF i <= Len(a) THEN a[i] ELSE b[i - Len(a)]
    BY <2>1, ConcatProperties, Zenon
  <2> QED
    BY <2>1, <2>2 DEF a, b
<1> HIDE DEF u, v
<1>4. /\ toLowerCase(u) \in Seq(Char) /\ Len(toLowerCase(u)) = Len(u)
      /\ \A i \in 1..Len(u) : toLowerCase(u)[i] = Lower(u[i])
  BY <1>1, LowerType
<1>5. \A i \in 1..Len(u) : toLowerCase(u)[i] = v[i]
  <2> SUFFICES ASSUME NEW i \in 1..Len(u) PROVE toLowerCase(u)[i] = v[i]
    OBVIOUS
  <2>1. i \in 1..Len(s) + Len(t) /\ (i <= Len(s) => i \in 1..Len(s))
        /\ (~(i <= Len(s)) => i - Len(s) \in 1..Len(t))
    BY <1>1
  <2> QED
    BY <1>1, <1>2, <1>3, <1>4, <2>1
<1>6. toLowerCase(u) = v
  BY <1>1, <1>3, <1>4, <1>5, SeqEqual
<1> QED
  BY <1>6 DEF u, v

\* Small letters, of one code.
LEMMA LowerCode == ASSUME NEW c \in Char PROVE toLowerCase(Code(c)) = Code(Lower(c))
<1>1. Code(c) \in Seq(Char) /\ Lower(c) \in Char
  BY CodeLength, LowerCodes
<1>2. Code(Lower(c)) \in Seq(Char) /\ Len(Code(Lower(c))) = Len(Code(c))
  BY <1>1, CodeLength, LowerCodes
<1>3. toLowerCase(Code(c)) \in Seq(Char) /\ Len(toLowerCase(Code(c))) = Len(Code(c))
      /\ \A i \in 1..Len(Code(c)) : toLowerCase(Code(c))[i] = Lower(Code(c)[i])
  BY <1>1, LowerType
<1>4. \A i \in 1..Len(Code(c)) : Lower(Code(c)[i]) = Code(Lower(c))[i]
  BY LowerCodes
<1> QED
  BY <1>2, <1>3, <1>4, SeqEqual

\* A text can be taken to small letters before or after it is encoded.
LEMMA LowerEncode ==
  ASSUME NEW text \in Seq(Char)
  PROVE  toLowerCase(Encode(text)) = Encode(toLowerCase(text))
<1> DEFINE L == Len(text)
           low == toLowerCase(text)
           p == Pieces(text)
           q == Pieces(low)
           Good == {n \in Nat : toLowerCase(Joined(p, n)) = Joined(q, n)}
<1>1. /\ L \in Nat /\ L = Len(text) /\ low \in Seq(Char) /\ L = Len(low)
      /\ \A n \in 1..L : low[n] = Lower(text[n]) /\ text[n] \in Char
  BY LowerType
<1> HIDE DEF L, low
<1>2. p \in Seq(Seq(Char)) /\ Len(p) = L /\ q \in Seq(Seq(Char)) /\ Len(q) = L
  BY <1>1, PiecesType
<1>3. \A n \in 1..L : /\ p[n] = IF Repeated(text, n) THEN <<>> ELSE Code(text[n])
                      /\ q[n] = IF Repeated(low, n) THEN <<>> ELSE Code(low[n])
  BY <1>1, PiecesType
<1>4. Encode(text) = Joined(p, L) /\ Encode(low) = Joined(q, L)
  BY <1>1, PiecesType
<1>5. \A n \in 1..L : Repeated(low, n) <=> Repeated(text, n)
  <2> SUFFICES ASSUME NEW n \in 1..L PROVE Repeated(low, n) <=> Repeated(text, n)
    OBVIOUS
  <2>1. n > 1 => n - 1 \in 1..L
    BY <1>1
  <2>2. \A k \in 1..L : low[k] = Character[2] <=> text[k] = Character[2]
    BY <1>1, LowerCodes
  <2> QED
    BY <2>1, <2>2, RepeatedFacts
<1> HIDE DEF p, q
<1>6. /\ Joined(p, 0) = <<>> /\ Joined(q, 0) = <<>>
      /\ \A n \in 1..L : Joined(p, n) = Joined(p, n - 1) \o p[n] /\ Joined(q, n) = Joined(q, n - 1) \o q[n]
      /\ \A n \in 1..L : p[n] \in Seq(Char)
      /\ \A n \in 0..L : Joined(p, n) \in Seq(Char) /\ Joined(q, n) \in Seq(Char)
  <2>1. /\ Joined(p, 0) = <<>> /\ \A n \in 0..L : Joined(p, n) \in Seq(Char)
        /\ \A n \in 1..L : Joined(p, n) = Joined(p, n - 1) \o p[n] /\ p[n] \in Seq(Char)
    BY <1>1, <1>2, JoinedSteps
  <2>2. /\ Joined(q, 0) = <<>> /\ \A n \in 0..L : Joined(q, n) \in Seq(Char)
        /\ \A n \in 1..L : Joined(q, n) = Joined(q, n - 1) \o q[n]
    BY <1>1, <1>2, JoinedSteps
  <2> QED
    BY <2>1, <2>2
<1>7. toLowerCase(<<>>) = <<>>
  BY DEF toLowerCase
<1>8. 0 \in Good
  BY <1>6, <1>7
<1>9. ASSUME NEW n \in 0..(L - 1), n \in Good PROVE n + 1 \in Good
  <2>1. n + 1 \in 1..L /\ n + 1 \in Nat /\ (n + 1) - 1 = n /\ n \in 0..L
    BY <1>1
  <2>2. /\ Joined(p, n + 1) = Joined(p, n) \o p[n + 1]
        /\ Joined(q, n + 1) = Joined(q, n) \o q[n + 1]
        /\ p[n + 1] \in Seq(Char) /\ Joined(p, n) \in Seq(Char)
    BY <1>6, <2>1
  <2>3. toLowerCase(p[n + 1]) = q[n + 1]
    <3>1. CASE Repeated(text, n + 1)
      BY <1>3, <1>5, <1>7, <2>1, <3>1
    <3>2. CASE ~Repeated(text, n + 1)
      <4>1. p[n + 1] = Code(text[n + 1]) /\ q[n + 1] = Code(Lower(text[n + 1])) /\ text[n + 1] \in Char
        BY <1>1, <1>3, <1>5, <2>1, <3>2
      <4> QED
        BY <4>1, LowerCode
    <3> QED
      BY <3>1, <3>2
  <2>4. toLowerCase(Joined(p, n)) = Joined(q, n)
    BY <1>9
  <2>5. toLowerCase(Joined(p, n + 1)) = Joined(q, n + 1)
    BY <2>2, <2>3, <2>4, LowerConcat
  <2> QED
    BY <2>1, <2>5
<1>10. \A n \in 0..(L - 1) : n \in Good => n + 1 \in Good
  BY <1>9
<1>11. L \in Good
  <2> HIDE DEF Good
  <2>1. \A n \in 0..L : n \in Good
    BY <1>1, <1>8, <1>10, Reaches
  <2> QED
    BY <1>1, <2>1
<1> QED
  BY <1>4, <1>11 DEF low

-----------------------------------------------------------------------------
(* The rows. *)

\* The rest of a sequence.
LEMMA RestOfSeq ==
  ASSUME NEW S, NEW s \in Seq(S), NEW m \in 0..Len(s)
  PROVE  /\ SubSeq(s, m + 1, Len(s)) \in Seq(S)
         /\ Len(SubSeq(s, m + 1, Len(s))) = Len(s) - m
         /\ \A i \in 1..(Len(s) - m) : SubSeq(s, m + 1, Len(s))[i] = s[m + i]
<1>1. Len(s) \in Nat /\ m + 1 \in Int /\ Len(s) \in Int /\ \A i \in (m + 1)..Len(s) : s[i] \in S
  BY LenProperties, ElementOfSeq
<1> QED
  BY <1>1, SubSeqProperties

\* The name in an id is what follows the first underscore.
LEMMA AfterTheUnderscore ==
  ASSUME NEW h \in Seq(Char), NEW w \in Seq(Char), NEW L \in Nat \ {0}, L = Len(h),
         h[L] = Character[1], \A k \in 1..(L - 1) : h[k] # Character[1]
  PROVE  MatchName(h \o w) = w
<1> DEFINE und == "_"
           id == h \o w
           at == {k \in DOMAIN id : id[k] = und}
<1>1. MatchName(id) = SubSeq(id, Min(at) + 1, Len(id))
  BY Zenon DEF MatchName
<1>2. und = Character[1]
  BY UnderscoreAndSpace, Zenon
<1> HIDE DEF und
<1>3. /\ id \in Seq(Char) /\ Len(id) = L + Len(w) /\ Len(w) \in Nat /\ DOMAIN id = 1..(L + Len(w))
      /\ \A i \in 1..(L + Len(w)) : id[i] = IF i <= L THEN h[i] ELSE w[i - L]
  BY ConcatProperties, LenProperties
<1> HIDE DEF id
<1>4. L \in at /\ at \subseteq 1..(L + Len(w)) /\ \A k \in at : L <= k
  <2>1. L \in 1..(L + Len(w)) /\ id[L] = h[L]
    BY <1>3
  <2>2. ASSUME NEW k \in at, k < L PROVE FALSE
    <3>1. k \in 1..(L - 1) /\ k \in 1..(L + Len(w)) /\ id[k] = und
      BY <1>3, <2>2
    <3>2. id[k] = h[k]
      BY <1>3, <3>1
    <3> QED
      BY <1>2, <3>1, <3>2
  <2>3. at \subseteq 1..(L + Len(w))
    BY <1>3
  <2>4. L \in at
    BY <1>2, <1>3, <2>1
  <2> HIDE DEF at
  <2> QED
    BY <1>3, <2>2, <2>3, <2>4
<1>5. Min(at) = L
  <2> HIDE DEF at
  <2>1. at \in SUBSET (0..(L + Len(w))) /\ at # {}
    BY <1>3, <1>4
  <2>2. L + Len(w) \in Nat
    BY <1>3
  <2> DEFINE m == Min(at)
  <2>3. m \in at /\ \A k \in at : m <= k
    BY <2>1, <2>2, MinAndMax
  <2> HIDE DEF m
  <2>4. m <= L /\ L <= m /\ m \in 0..(L + Len(w))
    BY <1>4, <2>1, <2>3
  <2>5. m = L
    BY <2>2, <2>4
  <2> QED
    BY <2>5 DEF m
<1> HIDE DEF at
<1> DEFINE v == SubSeq(id, L + 1, L + Len(w))
<1>6. MatchName(id) = v
  BY <1>1, <1>3, <1>5
<1>7. v \in Seq(Char) /\ Len(v) = Len(w) /\ \A i \in 1..Len(w) : v[i] = id[L + i]
  <2>1. L \in 0..Len(id) /\ Len(id) - L = Len(w) /\ v = SubSeq(id, L + 1, Len(id))
    BY <1>3
  <2> HIDE DEF v
  <2>2. /\ v \in Seq(Char) /\ Len(v) = Len(id) - L
        /\ \A i \in 1..(Len(id) - L) : v[i] = id[L + i]
    BY <1>3, <2>1, RestOfSeq
  <2> QED
    BY <2>1, <2>2
<1> HIDE DEF v
<1>8. \A i \in 1..Len(w) : v[i] = w[i]
  <2> SUFFICES ASSUME NEW i \in 1..Len(w) PROVE v[i] = w[i]
    OBVIOUS
  <2>1. L + i \in 1..(L + Len(w)) /\ ~(L + i <= L) /\ (L + i) - L = i
    BY <1>3
  <2> QED
    BY <1>3, <1>7, <2>1
<1>9. v = w
  BY <1>7, <1>8, SeqEqual
<1> QED
  BY <1>6, <1>9 DEF id

\* What stands before a name in an id.
LEMMA HeadOfId ==
  /\ "S" \in Char /\ "R" \in Char /\ "2" \in Char
  /\ Lower("S") # Character[1] /\ Lower("R") # Character[1] /\ Lower("2") # Character[1]
  /\ Lower(Character[1]) = Character[1] /\ Character[1] \in Char
<1>1. UpperCase[19] = "S" /\ UpperCase[18] = "R" /\ 18 \in 1..26 /\ 19 \in 1..26 /\ 1 \in 1..29
  BY DEF UpperCase
<1>2. \A k \in 1..26 : UpperCase[k] \in Char /\ LowerCase[k] \in Char
  BY Zenon DEF Char
<1>3. "2" \in Char
  BY Zenon DEF Char, Digits
<1>4. Character[1] # "2"
  BY UnderscoreAndSpace, Zenon
<1>5. /\ Character[1] \in Char
      /\ \A j \in 1..26 : UpperCase[j] # Character[1] /\ LowerCase[j] # Character[1]
  BY <1>1, CharacterFacts, Zenon
<1>6. Lower("S") # Character[1] /\ Lower("R") # Character[1]
  BY <1>1, <1>5, LowerFacts
<1>7. Lower(Character[1]) = Character[1]
  BY <1>5, LowerFacts, Zenon
<1>8. \A j \in 1..26 : UpperCase[j] # "2"
  BY DEF UpperCase
<1>9. Lower("2") = "2"
  BY <1>8, LowerFacts, Zenon
<1> QED
  BY <1>1, <1>2, <1>3, <1>4, <1>5, <1>6, <1>7, <1>9

\* One more element comes last.
LEMMA OneAtTheEnd ==
  ASSUME NEW S, NEW s \in Seq(S), NEW c \in S, NEW L \in Nat, L = Len(s)
  PROVE  /\ s \o <<c>> \in Seq(S) /\ Len(s \o <<c>>) = L + 1 /\ (s \o <<c>>)[L + 1] = c
         /\ \A i \in 1..L : (s \o <<c>>)[i] = s[i]
  OBVIOUS

\* Nothing between two sequences.
LEMMA NoneBetween ==
  ASSUME NEW S, NEW a \in S, NEW b \in S, NEW c \in S, NEW x, x = <<a, b>> \o <<>> \o <<c>>
  PROVE  x \in Seq(S) /\ Len(x) = 3 /\ x[1] = a /\ x[2] = b /\ x[3] = c
  OBVIOUS

\* A row's name, as a search compares it, is the encoded name in small letters.
LEMMA RowNames ==
  ASSUME NEW n \in DOMAIN Entry, Entry[n].name \in Seq(Char)
  PROVE  RowMatchName[n] = Encode(toLowerCase(Entry[n].name))
<1> DEFINE und == "_"
           two == "2"
           name == Entry[n].name
           twin == {k \in 1..n : Entry[k].name = Entry[n].name}
           h == <<"S", "R">> \o (IF twin = {n} THEN <<>> ELSE <<two>>) \o <<und>>
           w == Encode(name)
<1>1. RowMatchName[n] = MatchName(toLowerCase(h \o w))
  <2>1. RowMatchName[n] = MatchName(toLowerCase(RowId(n)))
    BY DEF RowMatchName
  <2>2. RowId(n) = h \o w
    BY Zenon DEF RowId
  <2> QED
    BY <2>1, <2>2, Zenon
<1>2. und = Character[1]
  BY UnderscoreAndSpace, Zenon
<1> HIDE DEF und, twin
<1>3. "S" \in Char /\ "R" \in Char /\ two \in Char /\ und \in Char
  BY <1>2, HeadOfId
<1> HIDE DEF two
<1>4. /\ h \in Seq(Char) /\ h[1] = "S" /\ h[2] = "R"
      /\ \/ Len(h) = 3 /\ h[3] = und
         \/ Len(h) = 4 /\ h[3] = two /\ h[4] = und
  <2>1. CASE twin = {n}
    <3>1. h = <<"S", "R">> \o <<>> \o <<und>>
      BY <2>1
    <3> HIDE DEF h
    <3> QED
      BY <1>3, <3>1, NoneBetween
  <2>2. CASE twin # {n}
    <3>1. h = <<"S", "R">> \o <<two>> \o <<und>>
      BY <2>2
    <3> DEFINE x == <<"S", "R">>
               y == x \o <<two>>
    <3>2. x \in Seq(Char) /\ Len(x) = 2 /\ x[1] = "S" /\ x[2] = "R"
      BY <1>3
    <3> HIDE DEF x
    <3>3. y \in Seq(Char) /\ Len(y) = 3 /\ y[1] = "S" /\ y[2] = "R" /\ y[3] = two
      BY <1>3, <3>2, OneAtTheEnd
    <3>4. h = y \o <<und>>
      BY <3>1 DEF x
    <3> HIDE DEF h, y
    <3> QED
      BY <1>3, <3>3, <3>4, OneAtTheEnd
  <2> QED
    BY <2>1, <2>2
<1>5. w \in Seq(Char) /\ toLowerCase(w) = Encode(toLowerCase(name))
  BY PiecesType, LenProperties, LowerEncode
<1> DEFINE g == toLowerCase(h)
<1>6. toLowerCase(h \o w) = g \o toLowerCase(w)
  <2> HIDE DEF h, w
  <2> QED
    BY <1>4, <1>5, LowerConcat
<1>7. g \in Seq(Char) /\ Len(g) = Len(h) /\ \A i \in 1..Len(h) : g[i] = Lower(h[i])
  <2> HIDE DEF h
  <2> QED
    BY <1>4, LowerType
<1>8. g[Len(g)] = Character[1] /\ \A k \in 1..(Len(g) - 1) : g[k] # Character[1]
  <2> HIDE DEF h, g
  <2>1. Lower("S") # und /\ Lower("R") # und /\ Lower(two) # und /\ Lower(und) = und
    BY <1>2, HeadOfId DEF two
  <2>2. CASE Len(h) = 3 /\ h[3] = und
    BY <1>2, <1>4, <1>7, <2>1, <2>2
  <2>3. CASE Len(h) = 4 /\ h[3] = two /\ h[4] = und
    BY <1>2, <1>4, <1>7, <2>1, <2>3
  <2> QED
    BY <1>4, <2>2, <2>3
<1>9. toLowerCase(w) \in Seq(Char)
  BY <1>5, LowerType
<1> HIDE DEF g, h, w
<1>10. Len(g) \in Nat \ {0}
  BY <1>4, <1>7
<1>11. MatchName(g \o toLowerCase(w)) = toLowerCase(w)
  BY <1>7, <1>8, <1>9, <1>10, AfterTheUnderscore
<1> QED
  BY <1>1, <1>5, <1>6, <1>11

-----------------------------------------------------------------------------
(* Searches find what there is. *)

\* The encoding mixes nothing up: of any texts, the encoding of one begins that of another
\* exactly when the one, with its runs of spaces squeezed, begins the other.
THEOREM EncodingKeepsBeginnings ==
  ASSUME NEW s \in Seq(Char), NEW t \in Seq(Char)
  PROVE  IsPrefix(Encode(s), Encode(t)) <=> IsPrefix(Squeezed(s), Squeezed(t))
<1>1. /\ Encode(s) \in Seq(Char) /\ Squeezed(s) \in Seq(Char)
      /\ Encode(t) \in Seq(Char) /\ Squeezed(t) \in Seq(Char)
  BY PiecesType, LenProperties
<1>2. Encode(s) = Coded(Squeezed(s)) /\ Encode(t) = Coded(Squeezed(t))
  BY EncodeSqueezed
<1>3. IsPrefix(Encode(s), Encode(t)) <=> Begins(Encode(s), Encode(t))
  BY <1>1, PrefixBegins
<1>4. IsPrefix(Squeezed(s), Squeezed(t)) <=> Begins(Squeezed(s), Squeezed(t))
  BY <1>1, PrefixBegins
<1>5. Begins(Coded(Squeezed(s)), Coded(Squeezed(t))) <=> Begins(Squeezed(s), Squeezed(t))
  BY <1>1, PrefixCode
<1> QED
  BY <1>2, <1>3, <1>4, <1>5

\* A squeezed text still begins with its first character.
LEMMA SqueezedFirst ==
  ASSUME NEW t \in Seq(Char)
  PROVE  /\ Len(t) \in Nat \ {0} => Len(Squeezed(t)) \in Nat \ {0} /\ Squeezed(t)[1] = t[1]
         /\ Len(t) = 0 => Len(Squeezed(t)) = 0
<1> DEFINE L == Len(t)
           q == Letters(t)
<1>1. L \in Nat /\ L = Len(t)
  BY LenProperties
<1> HIDE DEF L
<1>2. q \in Seq(Seq(Char)) /\ Len(q) = L /\ Squeezed(t) = Joined(q, L) /\ Squeezed(t) \in Seq(Char)
  BY <1>1, PiecesType
<1>3. ASSUME L # 0 PROVE Len(Squeezed(t)) \in Nat \ {0} /\ Squeezed(t)[1] = t[1]
  <2>1. 1 \in 1..L /\ L \in 1..L /\ 1 \in 0..L
    BY <1>1, <1>3
  <2>2. ~Repeated(t, 1)
    BY RepeatedFacts
  <2>3. q[1] = <<t[1]>> /\ t[1] \in Char
    BY <1>1, <2>1, <2>2, PiecesType
  <2> HIDE DEF q
  <2>4. Joined(q, 1) = Joined(q, 0) \o q[1] /\ Joined(q, 0) = <<>>
    <3>1. \A n \in 1..L : Joined(q, n) = Joined(q, n - 1) \o q[n]
      BY <1>1, <1>2, JoinedSteps
    <3>2. Joined(q, 1) = Joined(q, 1 - 1) \o q[1]
      BY <2>1, <3>1
    <3>3. Joined(q, 0) = <<>>
      BY <1>1, <1>2, JoinedSteps
    <3> QED
      BY <3>2, <3>3
  <2>5. Joined(q, 1) = <<t[1]>>
    <3>1. <<t[1]>> \in Seq(Char)
      BY <2>3
    <3>2. <<>> \o <<t[1]>> = <<t[1]>>
      BY <3>1, ConcatEmptySeq
    <3> QED
      BY <2>3, <2>4, <3>2
  <2>6. Begins(Joined(q, 1), Squeezed(t))
    BY <1>1, <1>2, <2>1, JoinedGrows
  <2>7. Len(<<t[1]>>) = 1 /\ <<t[1]>>[1] = t[1]
    OBVIOUS
  <2>8. Len(Squeezed(t)) \in Nat
    BY <1>2, LenProperties
  <2> DEFINE one == <<t[1]>>
  <2>9. Begins(one, Squeezed(t)) /\ Len(one) = 1 /\ one[1] = t[1]
    BY <2>5, <2>6, <2>7
  <2> HIDE DEF one
  <2>10. 1 <= Len(Squeezed(t)) /\ 1 \in 1..Len(one)
    BY <2>9 DEF Begins
  <2>11. one[1] = Squeezed(t)[1]
    BY <2>9, <2>10 DEF Begins
  <2> QED
    BY <2>8, <2>9, <2>10, <2>11
<1>4. ASSUME L = 0 PROVE Len(Squeezed(t)) = 0
  <2>1. Joined(q, 0) = <<>>
    BY DEF Joined
  <2> QED
    BY <1>2, <1>4, <2>1
<1> QED
  BY <1>1, <1>3, <1>4

\* Trim makes a text, and nothing of nothing.
LEMMA TrimFacts ==
  /\ \A text \in Seq(Char) : Trim(text) \in Seq(Char)
  /\ Trim(<<>>) = <<>>
<1>1. ASSUME NEW text \in Seq(Char)
      PROVE  Trim(text) \in Seq(Char) /\ (Len(text) = 0 => Trim(text) = <<>>)
  <2> DEFINE blank == " "
             full == {n \in DOMAIN text : text[n] # blank}
             L == Len(text)
  <2>1. Trim(text) = IF full = {} THEN <<>> ELSE SubSeq(text, Min(full), Max(full))
    BY Zenon DEF Trim
  <2> HIDE DEF blank
  <2>2. L \in Nat /\ DOMAIN text = 1..L /\ \A n \in 1..L : text[n] \in Char
    BY LenProperties, ElementOfSeq
  <2>3. full \in SUBSET (1..L)
    BY <2>2
  <2>4. Len(text) = 0 => full = {}
    BY <2>2
  <2> HIDE DEF full, L
  <2>5. CASE full = {}
    BY <2>1, <2>5, EmptySeq
  <2>6. CASE full # {}
    <3> DEFINE m == Min(full)
               n == Max(full)
    <3>1. full \in SUBSET (0..L)
      BY <2>2, <2>3
    <3>2. m \in full /\ n \in full
      BY <2>2, <2>6, <3>1, MinAndMax
    <3> HIDE DEF m, n
    <3>3. m \in Int /\ n \in Int /\ \A i \in m..n : text[i] \in Char
      BY <2>2, <2>3, <3>2
    <3>4. SubSeq(text, m, n) \in Seq(Char)
      BY <3>3, SubSeqProperties
    <3> QED
      BY <2>1, <2>4, <2>6, <3>4 DEF m, n
  <2> QED
    BY <2>5, <2>6
<1>2. <<>> \in Seq(Char) /\ Len(<<>>) = 0
  BY EmptySeq
<1> QED
  BY <1>1, <1>2

\* The section of a text does not depend on case, nor on more than the first character.
LEMMA SectionOfFirst ==
  ASSUME NEW s \in Seq(Char), NEW t \in Seq(Char), Len(s) \in Nat \ {0}, Len(t) \in Nat \ {0},
         Lower(s[1]) = Lower(t[1])
  PROVE  PageExtension(s) = PageExtension(t)
<1> DEFINE Letter(u) == {n \in 1..26 : u # <<>> /\ u[1] \in {LowerCase[n], UpperCase[n]}}
<1>1. s # <<>> /\ t # <<>>
  BY EmptySeq
<1>2. ASSUME NEW u \in {s, t} PROVE Letter(u) = {n \in 1..26 : Lower(u[1]) = LowerCase[n]}
  <2>1. ASSUME NEW n \in 1..26, u[1] \in {LowerCase[n], UpperCase[n]} PROVE Lower(u[1]) = LowerCase[n]
    BY <2>1, LowerFacts
  <2>2. ASSUME NEW n \in 1..26, Lower(u[1]) = LowerCase[n] PROVE u[1] \in {LowerCase[n], UpperCase[n]}
    <3>1. CASE \E k \in 1..26 : UpperCase[k] = u[1]
      <4>1. PICK k \in 1..26 : UpperCase[k] = u[1]
        BY <3>1
      <4>2. LowerCase[k] = LowerCase[n]
        BY <2>2, <4>1, LowerFacts
      <4> QED
        BY <4>1, <4>2, LettersApart
    <3>2. CASE ~\E k \in 1..26 : UpperCase[k] = u[1]
      BY <2>2, <3>2, LowerFacts
    <3> QED
      BY <3>1, <3>2
  <2> QED
    BY <1>1, <2>1, <2>2
<1>3. Letter(s) = Letter(t)
  BY <1>2
<1>4. ASSUME Letter(s) = {} PROVE s[1] = t[1]
  <2>1. \A n \in 1..26 : UpperCase[n] # s[1] /\ UpperCase[n] # t[1]
    BY <1>1, <1>3, <1>4
  <2> QED
    BY <2>1, LowerFacts
<1>5. \A u : PageExtension(u) =
               CASE Letter(u) # {} -> UpperCase[CHOOSE n \in Letter(u) : TRUE]
                 [] u # <<>> /\ Letter(u) = {} /\ u[1] \in Digits -> "Numbers"
                 [] OTHER -> "Symbols"
  BY DEF PageExtension
<1> HIDE DEF Letter
<1>6. CASE Letter(s) # {}
  <2>1. PageExtension(s) = UpperCase[CHOOSE n \in Letter(s) : TRUE]
    BY <1>5, <1>6
  <2>2. PageExtension(t) = UpperCase[CHOOSE n \in Letter(t) : TRUE]
    BY <1>3, <1>5, <1>6
  <2> QED
    BY <1>3, <2>1, <2>2
<1>7. CASE Letter(s) = {}
  <2>1. s[1] = t[1]
    BY <1>4, <1>7
  <2> QED
    BY <1>1, <1>3, <1>5, <1>7, <2>1
<1> QED
  BY <1>6, <1>7

\* What the assumption says of an entry.
LEMMA EntryNames ==
  \A n \in DOMAIN Entry : /\ Entry[n].name \in Seq(Char) /\ Trim(Entry[n].name) = Entry[n].name
                          /\ Entry[n].type \in DOMAIN indexSectionsWithContent
<1>1. \A n \in DOMAIN Entry :
        Entry[n] \in [type : DOMAIN indexSectionsWithContent \ {"General"}, name : Seq(Char)]
  <2> DEFINE R == [type : DOMAIN indexSectionsWithContent \ {"General"}, name : Seq(Char)]
  <2>1. Entry \in Seq(R)
    BY ResultsAssumption
  <2> HIDE DEF R
  <2>2. \A n \in DOMAIN Entry : Entry[n] \in R
    BY <2>1, LenProperties, ElementOfSeq
  <2> QED
    BY <2>2 DEF R
<1> QED
  BY <1>1, ResultsAssumption

\* The rows whose encoded names begin with the encoded text are the entries that begin with
\* the text, and they are in the section of the text.
LEMMA FoundBeginning ==
  ASSUME NEW text \in SearchText
  PROVE  /\ Found[text] = Beginning[text] /\ Found[text] \subseteq DOMAIN Entry
         /\ \A n \in Found[text] : Section[n] = PageExtension(Trim(text))
<1> DEFINE t == Trim(text)
           a == toLowerCase(t)
<1>1. t \in Seq(Char) /\ t # <<>>
  BY ResultsAssumption, TrimFacts
<1>2. a \in Seq(Char) /\ Len(a) = Len(t) /\ Len(t) \in Nat \ {0} /\ a[1] = Lower(t[1])
  <2>1. Len(t) \in Nat \ {0} /\ 1 \in 1..Len(t)
    BY <1>1, EmptySeq
  <2> HIDE DEF t
  <2> QED
    BY <1>1, <2>1, LowerType
<1>3. Sought(text) = Encode(a) /\ Meant(text) = Squeezed(a)
  BY DEF Sought, Meant
<1>4. ASSUME NEW n \in DOMAIN Entry
      PROVE  /\ IsPrefix(Sought(text), RowMatchName[n]) <=> IsPrefix(Meant(text), Meant(Entry[n].name))
             /\ IsPrefix(Meant(text), Meant(Entry[n].name)) => Section[n] = PageExtension(t)
  <2> DEFINE name == Entry[n].name
             b == toLowerCase(name)
  <2>1. name \in Seq(Char) /\ Trim(name) = name
    BY EntryNames
  <2>2. b \in Seq(Char) /\ Len(b) = Len(name)
    BY <2>1, LowerType
  <2>3. RowMatchName[n] = Encode(b)
    BY <2>1, RowNames
  <2>4. Meant(name) = Squeezed(b)
    BY <2>1 DEF Meant
  <2>5. Section[n] = PageExtension(name)
    BY DEF Section
  <2> HIDE DEF a, t, b, name
  <2>6. IsPrefix(Encode(a), Encode(b)) <=> IsPrefix(Squeezed(a), Squeezed(b))
    BY <1>2, <2>2, EncodingKeepsBeginnings
  <2>7. ASSUME IsPrefix(Squeezed(a), Squeezed(b)) PROVE PageExtension(name) = PageExtension(t)
    <3>1. Squeezed(a) \in Seq(Char) /\ Squeezed(b) \in Seq(Char)
      BY <1>2, <2>2, PiecesType, LenProperties
    <3>2. Begins(Squeezed(a), Squeezed(b))
      BY <2>7, <3>1, PrefixBegins
    <3>3. Len(Squeezed(a)) \in Nat \ {0} /\ Squeezed(a)[1] = a[1]
      BY <1>2, SqueezedFirst
    <3>4. Len(Squeezed(b)) \in Nat \ {0} /\ Squeezed(b)[1] = Squeezed(a)[1]
      BY <3>1, <3>2, <3>3, LenProperties DEF Begins
    <3>5. Len(b) \in Nat \ {0}
      BY <2>2, <3>4, SqueezedFirst, LenProperties
    <3>6. Squeezed(b)[1] = b[1]
      BY <2>2, <3>5, SqueezedFirst
    <3>7. Len(name) \in Nat \ {0} /\ 1 \in 1..Len(name)
      BY <2>2, <3>5
    <3>8. b[1] = Lower(name[1])
      BY <2>1, <3>7, LowerType DEF b
    <3>9. Lower(name[1]) = Lower(t[1])
      BY <1>2, <3>3, <3>4, <3>6, <3>8
    <3> QED
      BY <1>1, <1>2, <2>1, <3>7, <3>9, SectionOfFirst
  <2> QED
    BY <1>3, <2>3, <2>4, <2>5, <2>6, <2>7 DEF name
<1> HIDE DEF t
<1>5. Found[text] = {n \in DOMAIN Entry : IsPrefix(Sought(text), RowMatchName[n])}
  BY DEF Found
<1>6. Beginning[text] = {n \in DOMAIN Entry : IsPrefix(Meant(text), Meant(Entry[n].name))}
  BY DEF Beginning
<1>7. Found[text] = Beginning[text] /\ Found[text] \subseteq DOMAIN Entry
  BY <1>4, <1>5, <1>6
<1>8. \A n \in Found[text] : Section[n] = PageExtension(t)
  BY <1>4, <1>5
<1> QED
  BY <1>7, <1>8 DEF t

\* What a search leaves is what there is to find, on the page it chooses or when there is none.
LEMMA LookForFinds ==
  ASSUME NEW type \in DOMAIN indexSectionsWithContent, NEW text \in SearchText, LookFor(type, text)
  PROVE  FindsWhatThereIs'
<1> DEFINE ext == PageExtension(Trim(text))
           target == ResultsPage(type, Trim(text))
           wanted == {n \in Beginning[text] : type \in {Entry[n].type, "General"}}
<1>1. last' = [type |-> type, text |-> text]
  BY DEF LookFor
<1>2. /\ Found[text] = Beginning[text] /\ Found[text] \subseteq DOMAIN Entry
      /\ \A n \in Found[text] : Section[n] = ext
  BY FoundBeginning
<1>3. indexSectionsWithContent[type] =
        {Section[n] : n \in {k \in DOMAIN Entry : type \in {Entry[k].type, "General"}}}
  BY ResultsAssumption
<1>4. target = IF ext \in indexSectionsWithContent[type] THEN <<type, ext>> ELSE NoResults
  BY DEF ResultsPage
<1> HIDE DEF ext
<1>5. /\ {n \in DOMAIN rowDisplay' : rowDisplay'[n] = "block"} = wanted
      /\ noMatches' = (IF wanted = {} THEN "block" ELSE "none")
      /\ lastMatchCount' = Cardinality(wanted)
  <2>1. CASE target = NoResults
    <3>1. rowDisplay' = <<>> /\ lastMatchCount' = 0 /\ noMatches' = "block"
      BY <2>1 DEF LookFor
    <3>2. ext \notin indexSectionsWithContent[type]
      <4>1. Len(NoResults) = 1 /\ Len(<<type, ext>>) = 2
        BY DEF NoResults
      <4> QED
        BY <1>4, <2>1, <4>1
    <3>3. wanted = {}
      BY <1>2, <1>3, <3>2
    <3>4. DOMAIN rowDisplay' = {}
      BY <3>1
    <3> HIDE DEF wanted
    <3> QED
      BY <3>1, <3>3, <3>4, FS_EmptySet
  <2>2. CASE target # NoResults
    <3>1. ext \in indexSectionsWithContent[type] /\ target = <<type, ext>>
      BY <1>4, <2>2
    <3>2. Search(target, text)
      BY <2>2 DEF LookFor
    <3> HIDE DEF target
    <3>3. RowsOn(target) =
            {n \in DOMAIN Entry : type \in {Entry[n].type, "General"} /\ Section[n] = ext}
      <4>1. target[1] = type /\ target[2] = ext
        BY <3>1
      <4>2. ext \in {Section[n] : n \in DOMAIN Entry}
        BY <1>3, <3>1
      <4> QED
        BY <4>1, <4>2 DEF RowsOn, Rows
    <3>4. Found[text] \cap RowsOn(target) = wanted
      BY <1>2, <3>3
    <3> HIDE DEF wanted
    <3>5. /\ rowDisplay' = [n \in RowsOn(target) |-> IF n \in wanted THEN "block" ELSE "none"]
          /\ lastMatchCount' = Cardinality(wanted)
          /\ noMatches' = IF wanted = {} THEN "block" ELSE "none"
      BY <3>2, <3>4 DEF Search
    <3>6. wanted \subseteq RowsOn(target)
      BY <3>4
    <3>7. {n \in DOMAIN rowDisplay' : rowDisplay'[n] = "block"} = wanted
      BY <3>5, <3>6
    <3> QED
      BY <3>5, <3>7
  <2> QED
    BY <2>1, <2>2
<1>6. last'.text = text /\ last'.type = type
  BY <1>1
<1> QED
  BY <1>5, <1>6 DEF FindsWhatThereIs

LEMMA FindsInit == Init => FindsWhatThereIs
<1>1. <<>> \notin SearchText
  BY ResultsAssumption, TrimFacts
<1> SUFFICES ASSUME Init PROVE last.text \notin SearchText
  BY DEF FindsWhatThereIs
<1>2. last.text = <<>>
  BY DEF Init, ResultInit
<1> QED
  BY <1>1, <1>2

LEMMA FindsStep == FindsWhatThereIs /\ [Next]_vars => FindsWhatThereIs'
<1> SUFFICES ASSUME FindsWhatThereIs, [Next]_vars PROVE FindsWhatThereIs'
  OBVIOUS
<1>1. CASE ResultsStep
  <2>1. PICK type \in DOMAIN indexSectionsWithContent, text \in SearchText : LookFor(type, text)
    BY <1>1 DEF ResultsStep, ResultNext
  <2> QED
    BY <2>1, LookForFinds
<1>2. CASE UNCHANGED resultVars
  BY <1>2 DEF FindsWhatThereIs, resultVars
<1>3. ResultsStep \/ UNCHANGED resultVars
  BY DEF Next, MenuStep, ContentStep, FilesStep, vars
<1> QED
  BY <1>1, <1>2, <1>3

\* A search shows everything of its type that begins with the text and nothing else, with
\* the right count, and says "No Matches" only of nothing (SearchResults.Search, main.js,
\* on the pages and by the table that Natural Docs has generated), whatever the
\* documentation has and whatever is searched for.
THEOREM SearchesFindWhatThereIs == Spec => []FindsWhatThereIs
  BY FindsInit, FindsStep, PTL DEF Spec
===============================================================================
