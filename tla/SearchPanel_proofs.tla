-------------------------- MODULE SearchPanel_proofs --------------------------
(***************************************************************************)
(* Theorems about the search panel, for every set of texts, of search      *)
(* types and of settings, and any number of pending timers.                *)
(***************************************************************************)
EXTENDS SearchPanel, SequenceTheorems, WellFoundedInduction, TLAPS

-----------------------------------------------------------------------------
(* The pages. *)

\* What a search makes of a text is a text, and the page for it is a page.
LEMMA SearchedPages ==
  ASSUME NEW type \in SearchType, NEW text \in Text
  PROVE  /\ WithoutLeadingSpaces[text] \in Text
         /\ PageFor[type][text] \in Pages \ {NoPage, ContentPage}
<1>1. WithoutLeadingSpaces[text] \in Text
  BY TextAssumption
<1>2. PageFor[type][text] \in {NoResults, <<type, PageExtension(text)>>}
  BY DEF PageFor, ResultsPage
<1>3. {NoResults, <<type, PageExtension(text)>>} \subseteq Pages
  BY DEF Pages
<1>4. NoResults \notin {NoPage, ContentPage}
  BY DEF NoResults, NoPage, ContentPage
<1>5. <<type, PageExtension(text)>> \notin {NoPage, ContentPage}
  BY DEF NoPage, ContentPage
<1> QED
  BY <1>1, <1>2, <1>3, <1>4, <1>5

\* Facts of the constants that the steps below need.
LEMMA ConstantTypes ==
  /\ DefaultText \in Text /\ <<>> \in Text
  /\ "General" \in SearchType
  /\ NoPage \in Pages /\ ContentPage \in Pages /\ NoPage # ContentPage
<1>1. NoPage \in Pages /\ ContentPage \in Pages
  BY DEF Pages
<1>2. NoPage # ContentPage
  BY DEF NoPage, ContentPage
<1>3. "General" \in SearchType /\ <<>> \in Text
  BY PanelAssumption
<1> QED
  BY <1>1, <1>2, <1>3, TextAssumption

LEMMA TimerBoundType == TimerBound \in Nat /\ TimerBound > 0
BY PanelAssumption

-----------------------------------------------------------------------------
(* Types, and the timers. *)

\* A handle that is set stands for a timer that is pending.
HandlesArePending ==
  /\ keyTimeout => keyTimers > 0
  /\ inactivateTimeout => inactivateTimers > 0

\* In the content frame's panel every pending deactivation has the handle, and there is
\* none while a control has the focus.
OneDeactivation ==
  mode = "FramedHTML" =>
    /\ inactivateTimers = (IF inactivateTimeout THEN 1 ELSE 0)
    /\ focus # "none" => ~inactivateTimeout /\ className = Active

PanelInv == TypeOK /\ HandlesArePending /\ OneDeactivation

LEMMA PanelInvInit == Init => PanelInv
<1> SUFFICES ASSUME Init PROVE PanelInv
  OBVIOUS
<1>1. [mode |-> mode, browserType |-> browserType] \in Setting
  <2>1. PICK setting \in Setting : mode = setting.mode /\ browserType = setting.browserType
    BY DEF Init
  <2>2. setting \in [mode : {"HTML", "FramedHTML"}, browserType : STRING]
    BY PanelAssumption
  <2>3. setting = [mode |-> setting.mode, browserType |-> setting.browserType]
    BY <2>2
  <2> QED
    BY <2>1, <2>3
<1>2. FieldTypes
  BY ConstantTypes DEF Init, FieldTypes
<1>3. TimerTypes
  <2>1. keyTimers = 0 /\ inactivateTimers = 0 /\ 0 \in 0..TimerBound
    BY TimerBoundType DEF Init
  <2> QED
    BY <2>1 DEF Init, TimerTypes
<1>4. LastTypes
  BY ConstantTypes DEF Init, LastTypes
<1>5. FrameTypes
  BY ConstantTypes DEF Init, FrameTypes, NotLoading
<1>6. HandlesArePending /\ OneDeactivation
  BY DEF Init, HandlesArePending, OneDeactivation
<1> QED
  BY <1>1, <1>2, <1>3, <1>4, <1>5, <1>6 DEF PanelInv, TypeOK

\* Where the frame goes and what it is filtered by are pages and texts.
LEMMA GoToTypes ==
  ASSUME FrameTypes, NEW page \in Pages, NEW query \in Text, GoTo(page, query)
  PROVE  FrameTypes'
BY DEF FrameTypes, GoTo

LEMMA RefilterTypes ==
  ASSUME FrameTypes, NEW searchValue \in Text, Refilter(searchValue)
  PROVE  FrameTypes'
BY DEF FrameTypes, Refilter

\* A search keeps the types of what it changes, and it clears the handle.
LEMMA SearchTypes ==
  ASSUME TypeOK, NEW type \in SearchType, Search(type)
  PROVE  /\ keyTimeout' = FALSE /\ display' \in {"block", "none"}
         /\ LastTypes' /\ FrameTypes'
<1> DEFINE searchValue == WithoutLeadingSpaces[value]
           resultsPage == PageFor[type][searchValue]
<1>1. searchValue \in Text /\ <<>> \in Text
  BY SearchedPages, ConstantTypes DEF TypeOK, FieldTypes
<1>2. resultsPage \in Pages \ {NoPage, ContentPage}
  BY <1>1, SearchedPages
<1>3. /\ keyTimeout' = FALSE
      /\ ShowResults(resultsPage, searchValue)
      /\ display' = IF mode = "HTML" THEN "block" ELSE display
      /\ lastSearchValue' = searchValue /\ lastResultsPage' = resultsPage
  BY DEF Search
<1> HIDE DEF searchValue, resultsPage
<1>4. FrameTypes'
  <2>1. FrameTypes
    BY DEF TypeOK
  <2>2. CASE \E query \in Text : GoTo(resultsPage, query)
    BY <1>2, <2>1, <2>2, GoToTypes
  <2>3. CASE Refilter(searchValue)
    BY <1>1, <2>1, <2>3, RefilterTypes
  <2>4. CASE UNCHANGED frameVars
    BY <2>1, <2>4 DEF frameVars, FrameTypes
  <2> QED
    BY <1>1, <1>3, <2>2, <2>3, <2>4 DEF ShowResults
<1>5. display' \in {"block", "none"}
  BY <1>3 DEF TypeOK, FieldTypes
<1>6. LastTypes'
  BY <1>1, <1>2, <1>3 DEF LastTypes
<1> QED
  BY <1>3, <1>4, <1>5, <1>6

LEMMA PanelInvStep == PanelInv /\ [Next]_vars => PanelInv'
<1> SUFFICES ASSUME PanelInv, [Next]_vars PROVE PanelInv'
  OBVIOUS
<1>1. /\ TypeOK /\ FieldTypes /\ TimerTypes /\ LastTypes /\ FrameTypes
      /\ HandlesArePending /\ OneDeactivation
      /\ [mode |-> mode, browserType |-> browserType] \in Setting
  BY DEF PanelInv, TypeOK
<1>2. UNCHANGED settingVars
  BY DEF Next, vars
<1>3. (mode' = mode /\ browserType' = browserType)
  BY <1>2 DEF settingVars
<1>4. [mode |-> mode, browserType |-> browserType]' \in Setting
  BY <1>1, <1>3
<1>5. SUFFICES FieldTypes' /\ TimerTypes' /\ LastTypes' /\ FrameTypes' /\ HandlesArePending'
               /\ OneDeactivation'
  BY <1>4 DEF PanelInv, TypeOK
<1> DEFINE Kept == /\ FieldTypes' /\ TimerTypes' /\ LastTypes' /\ FrameTypes'
                   /\ HandlesArePending' /\ OneDeactivation'
<1>6. ASSUME NEW control \in {"field", "type"}, Focus(control) PROVE Kept
  <2>1. FieldTypes'
    BY <1>1, <1>6, ConstantTypes DEF Focus, Activated, FieldTypes, Active
  <2>2. TimerTypes'
    <3>1. keyTimeout' \in BOOLEAN /\ inactivateTimeout' \in BOOLEAN
      BY <1>1, <1>6 DEF Focus, Activated, TimerTypes
    <3>2. keyTimers' \in 0..TimerBound
      BY <1>1, <1>6, TimerBoundType DEF Focus, Activated, TimerTypes, HandlesArePending
    <3>3. inactivateTimers' \in 0..TimerBound
      BY <1>1, <1>6, TimerBoundType DEF Focus, Activated, TimerTypes, HandlesArePending
    <3> QED
      BY <3>1, <3>2, <3>3 DEF TimerTypes
  <2>3. LastTypes'
    BY <1>1, <1>6, ConstantTypes DEF Focus, Activated, LastTypes, lastVars
  <2>4. FrameTypes'
    BY <1>1, <1>6, ConstantTypes DEF Focus, Activated, FrameTypes, frameVars
  <2>5. HandlesArePending'
    BY <1>1, <1>6 DEF Focus, Activated, HandlesArePending
  <2>6. OneDeactivation'
    BY <1>1, <1>3, <1>6 DEF Focus, Activated, OneDeactivation, Active
  <2> QED
    BY <2>1, <2>2, <2>3, <2>4, <2>5, <2>6
<1>7. CASE Blur
  <2>1. FieldTypes'
    BY <1>1, <1>7, ConstantTypes DEF Blur, FieldTypes, Activated, DeactivateLater, Active
  <2>2. TimerTypes'
    <3>1. keyTimeout' \in BOOLEAN /\ inactivateTimeout' \in BOOLEAN
      BY <1>1, <1>7 DEF Blur, Activated, DeactivateLater, TimerTypes
    <3>2. keyTimers' \in 0..TimerBound
      BY <1>1, <1>7, TimerBoundType DEF Blur, Activated, DeactivateLater, TimerTypes, HandlesArePending
    <3>3. inactivateTimers' \in 0..TimerBound
      BY <1>1, <1>7, TimerBoundType DEF Blur, Activated, DeactivateLater, TimerTypes, HandlesArePending
    <3> QED
      BY <3>1, <3>2, <3>3 DEF TimerTypes
  <2>3. LastTypes'
    BY <1>1, <1>7, ConstantTypes DEF Blur, LastTypes, lastVars
  <2>4. FrameTypes'
    BY <1>1, <1>7, ConstantTypes DEF Blur, FrameTypes, frameVars
  <2>5. HandlesArePending'
    <3>1. keyTimeout' => keyTimers' > 0
      BY <1>1, <1>7 DEF Blur, HandlesArePending
    <3>2. inactivateTimeout' => inactivateTimers' > 0
      BY <1>1, <1>7 DEF Blur, Activated, DeactivateLater, TimerTypes
    <3> QED
      BY <3>1, <3>2 DEF HandlesArePending
  <2>6. OneDeactivation'
    BY <1>1, <1>3, <1>7 DEF Blur, OneDeactivation, Activated, DeactivateLater, TimerTypes
  <2> QED
    BY <2>1, <2>2, <2>3, <2>4, <2>5, <2>6
<1>8. ASSUME NEW text \in Text, Edit(text) PROVE Kept
  <2>1. FieldTypes'
    BY <1>1, <1>8, ConstantTypes DEF Edit, FieldTypes
  <2>2. TimerTypes'
    BY <1>1, <1>8 DEF Edit, TimerTypes, timerVars
  <2>3. LastTypes'
    BY <1>1, <1>8, ConstantTypes DEF Edit, LastTypes, lastVars
  <2>4. FrameTypes'
    BY <1>1, <1>8, ConstantTypes DEF Edit, FrameTypes, frameVars
  <2>5. HandlesArePending'
    BY <1>1, <1>8 DEF Edit, HandlesArePending, timerVars
  <2>6. OneDeactivation'
    BY <1>1, <1>3, <1>8 DEF Edit, OneDeactivation, timerVars
  <2> QED
    BY <2>1, <2>2, <2>3, <2>4, <2>5, <2>6
<1>9. CASE OnSearchFieldChange
  <2>1. FieldTypes'
    BY <1>1, <1>9, ConstantTypes DEF OnSearchFieldChange, FieldTypes
  <2>2. TimerTypes'
    <3>1. keyTimeout' \in BOOLEAN /\ inactivateTimeout' \in BOOLEAN
      BY <1>1, <1>9 DEF OnSearchFieldChange, TimerTypes
    <3>2. keyTimers' \in 0..TimerBound
      BY <1>1, <1>9, TimerBoundType DEF OnSearchFieldChange, TimerTypes, HandlesArePending
    <3>3. inactivateTimers' \in 0..TimerBound
      BY <1>1, <1>9, TimerBoundType DEF OnSearchFieldChange, TimerTypes, HandlesArePending
    <3> QED
      BY <3>1, <3>2, <3>3 DEF TimerTypes
  <2>3. LastTypes'
    BY <1>1, <1>9, ConstantTypes DEF OnSearchFieldChange, LastTypes
  <2>4. FrameTypes'
    BY <1>1, <1>9, ConstantTypes DEF OnSearchFieldChange, FrameTypes, frameVars
  <2>5. HandlesArePending'
    <3>1. keyTimeout' => keyTimers' > 0
      <4> DEFINE cleared == keyTimers - (IF keyTimeout THEN 1 ELSE 0)
                 search == WithoutSpaces[value] # lastSearchValue /\ WithoutSpaces[value] # <<>>
      <4>1. cleared \in Nat
        BY <1>1 DEF TimerTypes, HandlesArePending
      <4>2. keyTimeout' = search /\ keyTimers' = cleared + (IF search THEN 1 ELSE 0)
        BY <1>9 DEF OnSearchFieldChange
      <4> HIDE DEF cleared, search
      <4> QED
        BY <4>1, <4>2
    <3>2. inactivateTimeout' => inactivateTimers' > 0
      BY <1>1, <1>9 DEF OnSearchFieldChange, HandlesArePending
    <3> QED
      BY <3>1, <3>2 DEF HandlesArePending
  <2>6. OneDeactivation'
    BY <1>1, <1>3, <1>9 DEF OnSearchFieldChange, OneDeactivation
  <2> QED
    BY <2>1, <2>2, <2>3, <2>4, <2>5, <2>6
<1>10. ASSUME NEW type \in SearchType, OnSearchTypeChange(type) PROVE Kept
  <2>1. CASE Search(type)
    BY <1>1, <1>3, <1>10, <2>1, SearchTypes
       DEF OnSearchTypeChange, FieldTypes, TimerTypes, HandlesArePending, OneDeactivation
  <2>2. CASE UNCHANGED <<display, keyTimeout, lastVars, frameVars>>
    BY <1>1, <1>3, <1>10, <2>2
       DEF OnSearchTypeChange, FieldTypes, TimerTypes, LastTypes, FrameTypes, HandlesArePending,
           OneDeactivation, lastVars, frameVars
  <2> QED
    BY <1>10, <2>1, <2>2 DEF OnSearchTypeChange
<1>11. CASE CloseResultsWindow
  <2>1. FieldTypes'
    BY <1>1, <1>11, ConstantTypes DEF CloseResultsWindow, InactivateAfterTimeout, FieldTypes
  <2>2. TimerTypes'
    BY <1>1, <1>11 DEF CloseResultsWindow, InactivateAfterTimeout, TimerTypes
  <2>3. LastTypes'
    BY <1>1, <1>11, ConstantTypes DEF CloseResultsWindow, InactivateAfterTimeout, LastTypes
  <2>4. FrameTypes'
    BY <1>1, <1>11, ConstantTypes DEF CloseResultsWindow, InactivateAfterTimeout, FrameTypes, frameVars
  <2>5. HandlesArePending'
    BY <1>1, <1>11 DEF CloseResultsWindow, InactivateAfterTimeout, HandlesArePending
  <2>6. OneDeactivation'
    BY <1>1, <1>3, <1>11 DEF CloseResultsWindow, InactivateAfterTimeout, OneDeactivation
  <2> QED
    BY <2>1, <2>2, <2>3, <2>4, <2>5, <2>6
<1>12. CASE FollowLink
  <2>1. FieldTypes'
    BY <1>1, <1>12, ConstantTypes DEF FollowLink, FieldTypes
  <2>2. TimerTypes'
    BY <1>1, <1>12 DEF FollowLink, TimerTypes, timerVars
  <2>3. LastTypes'
    BY <1>1, <1>12, ConstantTypes DEF FollowLink, LastTypes, lastVars
  <2>4. FrameTypes'
    BY <1>1, <1>12, ConstantTypes, GoToTypes DEF FollowLink
  <2>5. HandlesArePending'
    BY <1>1, <1>12 DEF FollowLink, HandlesArePending, timerVars
  <2>6. OneDeactivation'
    BY <1>1, <1>3, <1>12 DEF FollowLink, OneDeactivation, timerVars
  <2> QED
    BY <2>1, <2>2, <2>3, <2>4, <2>5, <2>6
<1>13. CASE KeyTimer
  <2>1. /\ keyTimeout' = FALSE /\ display' \in {"block", "none"}
        /\ LastTypes' /\ FrameTypes'
    BY <1>1, <1>13, SearchTypes DEF KeyTimer, FieldTypes
  <2>2. keyTimers' \in 0..TimerBound
    BY <1>1, <1>13, TimerBoundType DEF KeyTimer, TimerTypes
  <2> QED
    BY <1>1, <1>3, <1>13, <2>1, <2>2
       DEF KeyTimer, FieldTypes, TimerTypes, HandlesArePending, OneDeactivation
<1>14. CASE InactivateTimer
  <2>1. FieldTypes'
    BY <1>1, <1>14, ConstantTypes DEF InactivateTimer, InactivateAfterTimeout, FieldTypes
  <2>2. TimerTypes'
    <3>1. keyTimeout' \in BOOLEAN /\ inactivateTimeout' \in BOOLEAN
      BY <1>1, <1>14 DEF InactivateTimer, InactivateAfterTimeout, TimerTypes
    <3>2. keyTimers' \in 0..TimerBound
      BY <1>1, <1>14, TimerBoundType DEF InactivateTimer, InactivateAfterTimeout, TimerTypes, HandlesArePending
    <3>3. inactivateTimers' \in 0..TimerBound
      BY <1>1, <1>14, TimerBoundType DEF InactivateTimer, InactivateAfterTimeout, TimerTypes, HandlesArePending
    <3> QED
      BY <3>1, <3>2, <3>3 DEF TimerTypes
  <2>3. LastTypes'
    BY <1>1, <1>14, ConstantTypes DEF InactivateTimer, InactivateAfterTimeout, LastTypes
  <2>4. FrameTypes'
    BY <1>1, <1>14, ConstantTypes DEF InactivateTimer, InactivateAfterTimeout, FrameTypes, frameVars
  <2>5. HandlesArePending'
    BY <1>1, <1>14 DEF InactivateTimer, InactivateAfterTimeout, HandlesArePending, TimerTypes
  <2>6. OneDeactivation'
    BY <1>1, <1>3, <1>14 DEF InactivateTimer, InactivateAfterTimeout, OneDeactivation, TimerTypes
  <2> QED
    BY <2>1, <2>2, <2>3, <2>4, <2>5, <2>6
<1>15. CASE PageArrives
  <2>1. FieldTypes'
    BY <1>1, <1>15, ConstantTypes DEF PageArrives, FieldTypes
  <2>2. TimerTypes'
    BY <1>1, <1>15 DEF PageArrives, TimerTypes, timerVars
  <2>3. LastTypes'
    BY <1>1, <1>15, ConstantTypes DEF PageArrives, LastTypes, lastVars
  <2>4. FrameTypes'
    BY <1>1, <1>15, ConstantTypes DEF PageArrives, FrameTypes, NotLoading
  <2>5. HandlesArePending'
    BY <1>1, <1>15 DEF PageArrives, HandlesArePending, timerVars
  <2>6. OneDeactivation'
    BY <1>1, <1>3, <1>15 DEF PageArrives, OneDeactivation, timerVars
  <2> QED
    BY <2>1, <2>2, <2>3, <2>4, <2>5, <2>6
<1>16. CASE PageLoads
  <2>1. FieldTypes'
    BY <1>1, <1>16, ConstantTypes DEF PageLoads, FieldTypes
  <2>2. TimerTypes'
    BY <1>1, <1>16 DEF PageLoads, TimerTypes, timerVars
  <2>3. LastTypes'
    BY <1>1, <1>16, ConstantTypes DEF PageLoads, LastTypes, lastVars
  <2>4. FrameTypes'
    BY <1>1, <1>16, ConstantTypes DEF PageLoads, FrameTypes
  <2>5. HandlesArePending'
    BY <1>1, <1>16 DEF PageLoads, HandlesArePending, timerVars
  <2>6. OneDeactivation'
    BY <1>1, <1>3, <1>16 DEF PageLoads, OneDeactivation, timerVars
  <2> QED
    BY <2>1, <2>2, <2>3, <2>4, <2>5, <2>6
<1>17. CASE UNCHANGED vars
  BY <1>1, <1>17 DEF vars, settingVars, timerVars, lastVars, frameVars, FieldTypes, TimerTypes,
     LastTypes, FrameTypes, HandlesArePending, OneDeactivation
<1> QED
  BY <1>6, <1>7, <1>8, <1>9, <1>10, <1>11, <1>12, <1>13, <1>14, <1>15, <1>16, <1>17 DEF Next, User, Browser

\* Every variable of the panel keeps its type; timers are counted right, and no more than
\* the bound are pending.
THEOREM PanelTypes == Spec => []TypeOK
<1>1. Spec => []PanelInv
  BY PanelInvInit, PanelInvStep, PTL DEF Spec
<1>2. PanelInv => TypeOK
  BY DEF PanelInv
<1> QED
  BY <1>1, <1>2, PTL

\* The panel of the menu stays active, and none of its deactivations is on its way, while
\* one of its controls has the focus.
THEOREM PanelStaysActive == Spec => []FocusedPanelStaysActive
<1>1. Spec => []PanelInv
  BY PanelInvInit, PanelInvStep, PTL DEF Spec
<1>2. PanelInv => FocusedPanelStaysActive
  BY DEF PanelInv, OneDeactivation, FocusedPanelStaysActive
<1> QED
  BY <1>1, <1>2, PTL
-----------------------------------------------------------------------------
(* The frame and the last search. *)

\* The page the panel was at last is in the frame or on its way there.
FrameAtLastPage ==
  lastResultsPage # NoPage =>
    (IF loading = NotLoading THEN frame.page ELSE loading.page) \in {lastResultsPage, ContentPage}

\* The text of the last search is that of the page's URL until the page has loaded, and
\* from then on what its rows are filtered by.
FrameHasLastValue ==
  (~overtaken /\ HasScript(lastResultsPage) /\ lastSearchValue # <<>>) =>
    /\ (loading # NotLoading /\ loading.page = lastResultsPage) => loading.query = lastSearchValue
    /\ (loading = NotLoading /\ frame.page = lastResultsPage) =>
         (IF frame.ready THEN frame.filter ELSE frame.query) = lastSearchValue

LEMMA FrameInvInit == Init => FrameAtLastPage /\ FrameHasLastValue
BY DEF Init, FrameAtLastPage, FrameHasLastValue

\* What a search does to the frame: it sends it to the page, filters the page anew, or
\* finds that there is nothing to be done.
LEMMA SearchFrame ==
  ASSUME FieldTypes, FrameTypes, FrameAtLastPage, NEW type \in SearchType, Search(type)
  PROVE  FrameAtLastPage' /\ FrameHasLastValue'
<1> DEFINE searchValue == WithoutLeadingSpaces[value]
           resultsPage == PageFor[type][searchValue]
<1>1. searchValue \in Text
  BY SearchedPages DEF FieldTypes
<1>2. resultsPage \in Pages \ {NoPage, ContentPage}
  BY <1>1, SearchedPages
<1>3. /\ ShowResults(resultsPage, searchValue)
      /\ lastSearchValue' = searchValue /\ lastResultsPage' = resultsPage
  BY DEF Search
<1> HIDE DEF searchValue, resultsPage
<1>4. CASE GoTo(resultsPage, IF resultsPage = NoResults THEN <<>> ELSE searchValue)
  <2>1. loading'.page = resultsPage /\ loading' # NotLoading
    BY <1>2, <1>4 DEF GoTo, NotLoading
  <2>2. resultsPage # NoResults => loading'.query = searchValue
    BY <1>4 DEF GoTo
  <2> QED
    BY <1>3, <2>1, <2>2 DEF FrameAtLastPage, FrameHasLastValue, HasScript, NotLoading
<1>5. CASE /\ resultsPage = lastResultsPage
           /\ HasSearchResults(frame) /\ Refilter(searchValue)
  <2>1. /\ frame'.page = frame.page /\ frame'.ready = frame.ready
        /\ searchValue # <<>> => frame'.filter = searchValue
    BY <1>5 DEF Refilter, FrameTypes
  <2>2. loading' = loading /\ overtaken' = (loading # NotLoading)
    BY <1>5 DEF Refilter
  <2>3. FrameAtLastPage'
    BY <1>3, <1>5, <2>1, <2>2 DEF FrameAtLastPage, NotLoading
  <2>4. FrameHasLastValue'
    BY <1>3, <1>5, <2>1, <2>2 DEF FrameHasLastValue, HasSearchResults, NotLoading
  <2> QED
    BY <2>3, <2>4
<1>6. CASE resultsPage = lastResultsPage /\ resultsPage = NoResults /\ UNCHANGED frameVars
  BY <1>3, <1>6 DEF frameVars, FrameAtLastPage, FrameHasLastValue, HasScript, NotLoading
<1>7. resultsPage # NoResults => (IF resultsPage = NoResults THEN <<>> ELSE searchValue) = searchValue
  OBVIOUS
<1> QED
  BY <1>3, <1>4, <1>5, <1>6, <1>7 DEF ShowResults

LEMMA FrameInvStep ==
  TypeOK /\ FrameAtLastPage /\ FrameHasLastValue /\ [Next]_vars
    => FrameAtLastPage' /\ FrameHasLastValue'
<1> SUFFICES ASSUME TypeOK, FrameAtLastPage, FrameHasLastValue, [Next]_vars
             PROVE  FrameAtLastPage' /\ FrameHasLastValue'
  OBVIOUS
<1>1. FieldTypes /\ FrameTypes
  BY DEF TypeOK
\* Most actions leave the frame alone, and the last search too or forget it.
<1>2. ASSUME UNCHANGED frameVars,
             \/ UNCHANGED lastVars
             \/ lastSearchValue' = <<>> /\ lastResultsPage' \in {lastResultsPage, NoPage}
      PROVE  FrameAtLastPage' /\ FrameHasLastValue'
  BY <1>2 DEF frameVars, lastVars, FrameAtLastPage, FrameHasLastValue, HasScript, NotLoading
<1>3. ASSUME NEW control \in {"field", "type"}, Focus(control)
      PROVE  UNCHANGED frameVars /\ UNCHANGED lastVars
  BY <1>3 DEF Focus
<1>4. CASE Blur
  BY <1>2, <1>4 DEF Blur
<1>5. ASSUME NEW text \in Text, Edit(text) PROVE UNCHANGED frameVars /\ UNCHANGED lastVars
  BY <1>5 DEF Edit
<1>6. CASE OnSearchFieldChange
  BY <1>2, <1>6 DEF OnSearchFieldChange, lastVars
<1>7. ASSUME NEW type \in SearchType, OnSearchTypeChange(type)
      PROVE  FrameAtLastPage' /\ FrameHasLastValue'
  <2>1. CASE Search(type)
    BY <1>1, <2>1, SearchFrame
  <2>2. CASE UNCHANGED <<display, keyTimeout, lastVars, frameVars>>
    BY <1>2, <2>2
  <2> QED
    BY <1>7, <2>1, <2>2 DEF OnSearchTypeChange
<1>8. CASE CloseResultsWindow
  BY <1>2, <1>8 DEF CloseResultsWindow, InactivateAfterTimeout
<1>9. CASE FollowLink
  BY <1>9 DEF FollowLink, GoTo, lastVars, FrameAtLastPage, FrameHasLastValue, HasScript,
              NotLoading, ContentPage, NoPage
<1>10. CASE KeyTimer
  BY <1>1, <1>10, SearchFrame DEF KeyTimer, FieldTypes
<1>11. CASE InactivateTimer
  BY <1>2, <1>11 DEF InactivateTimer, InactivateAfterTimeout
<1>12. CASE PageArrives
  BY <1>12 DEF PageArrives, lastVars, FrameAtLastPage, FrameHasLastValue, NotLoading
<1>13. CASE PageLoads
  <2>1. /\ frame'.page = frame.page /\ frame'.ready
        /\ ~frame.ready /\ frame'.filter = frame.query
    BY <1>1, <1>13 DEF PageLoads, FrameTypes
  <2>2. UNCHANGED <<loading, overtaken, lastResultsPage, lastSearchValue>>
    BY <1>13 DEF PageLoads, lastVars
  <2>3. FrameAtLastPage'
    BY <2>1, <2>2 DEF FrameAtLastPage, NotLoading
  <2>4. FrameHasLastValue'
    BY <2>1, <2>2 DEF FrameHasLastValue, NotLoading
  <2> QED
    BY <2>3, <2>4
<1>14. CASE UNCHANGED vars
  BY <1>2, <1>14 DEF vars, lastVars, frameVars
<1> QED
  BY <1>2, <1>3, <1>4, <1>5, <1>6, <1>7, <1>8, <1>9, <1>10, <1>11, <1>12, <1>13, <1>14
     DEF Next, User, Browser

\* The page a search believes to be in the frame is there or on its way, unless a link has
\* led the frame elsewhere; and what it shows in the end is the result of the last search,
\* unless a search was run in a document that was about to be replaced.
THEOREM PanelFollowsLastSearch == Spec => []FrameFollowsLastSearch
<1>1. Spec => []PanelInv
  BY PanelInvInit, PanelInvStep, PTL DEF Spec
<1>2. PanelInv => TypeOK
  BY DEF PanelInv
<1>3. Spec => [](TypeOK /\ FrameAtLastPage /\ FrameHasLastValue)
  BY <1>1, <1>2, FrameInvInit, FrameInvStep, PTL DEF Spec
<1>4. FrameAtLastPage /\ FrameHasLastValue => FrameFollowsLastSearch
  BY DEF FrameAtLastPage, FrameHasLastValue, FrameFollowsLastSearch, SettledOnLastSearch,
         HasSearchResults
<1> QED
  BY <1>3, <1>4, PTL

-----------------------------------------------------------------------------
(* The bug of Internet Explorer. *)

\* In Internet Explorer no document whose rows are all hidden is filtered again.
THEOREM PanelNeverReusesAnEmptyPage == Spec => NeverReusesAnEmptyPage
<1> DEFINE Reused == (browserType = "IE" /\ frame' # frame /\ frame.ready /\ frame'.ready
                        /\ frame'.page = frame.page) => frame.filter \notin Unmatched
<1>1. ASSUME NEW type, Search(type) PROVE Reused
  <2> DEFINE searchValue == WithoutLeadingSpaces[value]
             resultsPage == PageFor[type][searchValue]
  <2>1. ShowResults(resultsPage, searchValue)
    BY <1>1 DEF Search
  <2> HIDE DEF searchValue, resultsPage
  <2>2. \/ UNCHANGED frame
        \/ ~IEBug(resultsPage) /\ resultsPage # NoResults /\ HasSearchResults(frame)
    BY <2>1 DEF ShowResults, GoTo, frameVars
  <2> QED
    BY <2>2 DEF IEBug
<1>2. [Next]_vars => UNCHANGED frame \/ PageArrives \/ PageLoads
                       \/ \E type \in SearchType \cup {searchTopic} : Search(type)
  BY DEF Next, User, Browser, vars, frameVars, Focus, Blur, Edit, OnSearchFieldChange,
         OnSearchTypeChange, CloseResultsWindow, FollowLink, GoTo, KeyTimer, InactivateTimer
<1>3. PageArrives => ~frame'.ready
  BY DEF PageArrives
<1>4. PageLoads => ~frame.ready
  BY DEF PageLoads
<1>5. [Next]_vars => [Reused]_vars
  BY <1>1, <1>2, <1>3, <1>4
<1> QED
  BY <1>5, PTL DEF Spec, NeverReusesAnEmptyPage
-----------------------------------------------------------------------------
(* Induction over the characters of a text. *)

\* Every non-empty set of natural numbers has a least element.
LEMMA LeastNat ==
  ASSUME NEW S, S \subseteq Nat, S # {}
  PROVE  \E m \in S : \A k \in S : m <= k
<1> DEFINE R == OpToRel(<, Nat)
<1>1. IsWellFoundedOn(R, Nat)
  BY NatLessThanWellFounded
<1>2. \A j, k \in Nat : j < k => <<j, k>> \in R
  BY DEF OpToRel
<1> HIDE DEF R
<1>3. PICK m \in S : \A k \in S : <<k, m>> \notin R
  BY <1>1, WFMin
<1>4. \A k \in S : ~(k < m)
  BY <1>2, <1>3, Zenon
<1> QED
  BY <1>4

\* Induction up to n, with a set for the numbers that have the property.
LEMMA Reaches ==
  ASSUME NEW S, NEW n \in Nat, 0 \in S, \A k \in 0..(n - 1) : k \in S => k + 1 \in S
  PROVE  \A k \in 0..n : k \in S
<1> DEFINE Out == {k \in 0..n : k \notin S}
<1> SUFFICES ASSUME Out # {} PROVE FALSE
  OBVIOUS
<1>1. PICK m \in Out : \A k \in Out : m <= k
  <2>1. Out \subseteq Nat
    OBVIOUS
  <2> HIDE DEF Out
  <2> QED
    BY <2>1, LeastNat
<1>2. m # 0 /\ m - 1 \in 0..(n - 1)
  BY <1>1
<1>3. m - 1 \in S
  BY <1>1, <1>2
<1> QED
  BY <1>1, <1>2, <1>3
-----------------------------------------------------------------------------
(* Texts without their spaces. *)

\* The recursion of SpacesOut, step by step.
LEMMA SpacesOutSteps ==
  ASSUME NEW text, Len(text) \in Nat
  PROVE  /\ SpacesOut(text)[0] = <<>>
         /\ \A n \in 1..Len(text) :
              SpacesOut(text)[n] =
                IF text[n] = " " THEN SpacesOut(text)[n - 1]
                                 ELSE Append(SpacesOut(text)[n - 1], text[n])
<1> DEFINE Next1(kept, n) == IF text[n] = " " THEN kept ELSE Append(kept, text[n])
           Upto(g, k) == g = [n \in 0..k |-> IF n = 0 THEN <<>> ELSE Next1(g[n - 1], n)]
           Defined == {k \in Nat : \E g : Upto(g, k)}
<1> HIDE DEF Next1
<1>1. 0 \in Defined
  <2>1. Upto([n \in 0..0 |-> <<>>], 0)
    OBVIOUS
  <2> QED
    BY <2>1
<1>2. ASSUME NEW k \in 0..(Len(text) - 1), k \in Defined
      PROVE  k + 1 \in Defined
  <2>1. PICK g : Upto(g, k)
    BY <1>2
  <2> DEFINE h == [n \in 0..(k + 1) |-> IF n = k + 1 THEN Next1(g[k], k + 1) ELSE g[n]]
  <2>2. \A n \in 0..k : h[n] = g[n]
    OBVIOUS
  <2>3. h[k + 1] = Next1(h[k], k + 1) /\ k + 1 # 0
    BY <2>2
  <2>4. \A n \in 0..k : h[n] = IF n = 0 THEN <<>> ELSE Next1(h[n - 1], n)
    <3> SUFFICES ASSUME NEW n \in 0..k
                 PROVE  h[n] = IF n = 0 THEN <<>> ELSE Next1(h[n - 1], n)
      OBVIOUS
    <3>1. h[n] = g[n] /\ (n # 0 => h[n - 1] = g[n - 1])
      BY <2>2
    <3>2. g[n] = IF n = 0 THEN <<>> ELSE Next1(g[n - 1], n)
      BY <2>1
    <3> HIDE DEF h
    <3> QED
      BY <3>1, <3>2
  <2>5. h = [n \in 0..(k + 1) |-> h[n]]
    OBVIOUS
  <2> HIDE DEF h
  <2>6. \A n \in 0..(k + 1) : h[n] = IF n = 0 THEN <<>> ELSE Next1(h[n - 1], n)
    BY <2>3, <2>4
  <2>7. Upto(h, k + 1)
    BY <2>5, <2>6
  <2> QED
    BY <2>7
<1>3. \E g : Upto(g, Len(text))
  <2> HIDE DEF Defined
  <2>1. \A k \in 0..(Len(text) - 1) : k \in Defined => k + 1 \in Defined
    BY <1>2
  <2>2. \A k \in 0..Len(text) : k \in Defined
    BY <1>1, <2>1, Reaches
  <2>3. Len(text) \in Defined
    BY <2>2
  <2> QED
    BY <2>3 DEF Defined
<1>4. Upto(SpacesOut(text), Len(text))
  <2>1. SpacesOut(text) = CHOOSE g : Upto(g, Len(text))
    BY DEF SpacesOut, Next1
  <2> HIDE DEF Upto
  <2> QED
    BY <1>3, <2>1
<1>5. \A n \in 0..Len(text) :
        SpacesOut(text)[n] = IF n = 0 THEN <<>> ELSE Next1(SpacesOut(text)[n - 1], n)
  BY <1>4
<1>6. SpacesOut(text)[0] = <<>>
  BY <1>5
<1>7. \A n \in 1..Len(text) : n \in 0..Len(text) /\ n # 0
  OBVIOUS
<1>8. \A n \in 1..Len(text) : SpacesOut(text)[n] = Next1(SpacesOut(text)[n - 1], n)
  BY <1>5, <1>7
<1> QED
  BY <1>6, <1>8 DEF Next1

\* No space is left,
LEMMA SpacesOutType ==
  ASSUME NEW text, NEW L \in Nat, Len(text) = L, NEW Char,
         \A n \in 1..L : text[n] = " " \/ text[n] \in Char
  PROVE  \A n \in 0..L : SpacesOut(text)[n] \in Seq(Char)
<1> DEFINE Good == {n \in Nat : SpacesOut(text)[n] \in Seq(Char)}
<1>1. 0 \in Good
  BY SpacesOutSteps, EmptySeq
<1>2. ASSUME NEW n \in 0..(L - 1), n \in Good
      PROVE  n + 1 \in Good
  <2>1. n + 1 \in Nat /\ n + 1 \in 1..L /\ (n + 1) - 1 = n
    BY ONLY L \in Nat, n \in 0..(L - 1)
  <2>2. SpacesOut(text)[n + 1] = IF text[n + 1] = " " THEN SpacesOut(text)[n]
                                 ELSE Append(SpacesOut(text)[n], text[n + 1])
    BY <2>1, SpacesOutSteps
  <2>3. text[n + 1] = " " \/ text[n + 1] \in Char
    BY <2>1
  <2>4. SpacesOut(text)[n] \in Seq(Char)
    BY <1>2
  <2>5. SpacesOut(text)[n + 1] \in Seq(Char)
    BY <2>2, <2>3, <2>4, AppendProperties
  <2> QED
    BY <2>1, <2>5
<1>3. \A n \in 0..(L - 1) : n \in Good => n + 1 \in Good
  BY <1>2
<1>4. \A n \in 0..L : n \in Good
  <2> HIDE DEF Good
  <2> QED
    BY <1>1, <1>3, Reaches
<1> QED
  BY <1>4

\* and a text without spaces is left as it is.
LEMMA SpacesOutSame ==
  ASSUME NEW Char, NEW text \in Seq(Char), " " \notin Char
  PROVE  SpacesOut(text)[Len(text)] = text
<1> DEFINE L == Len(text)
           Good == {n \in Nat : SpacesOut(text)[n] = SubSeq(text, 1, n)}
<1>1. L \in Nat /\ \A n \in 1..L : text[n] \in Char
  BY LenProperties, ElementOfSeq
<1>2. \A n \in 1..L : SpacesOut(text)[n] = Append(SpacesOut(text)[n - 1], text[n])
  BY <1>1, SpacesOutSteps
<1>3. SpacesOut(text)[0] = SubSeq(text, 1, 0)
  <2>1. SubSeq(text, 1, 0) = <<>>
    BY ONLY SubSeqEmpty
  <2> QED
    BY <1>1, <2>1, SpacesOutSteps
<1>4. SubSeq(text, 1, L) = text
  BY SubSeqFull
<1>5. \A n \in 1..L : SubSeq(text, 1, n) = Append(SubSeq(text, 1, n - 1), text[n])
  <2> SUFFICES ASSUME NEW n \in 1..L
               PROVE  SubSeq(text, 1, n) = Append(SubSeq(text, 1, n - 1), text[n])
    OBVIOUS
  <2>1. /\ 1 \in 1..L /\ 1 \in Int /\ n - 1 \in Int
        /\ \A i \in 1..(n - 1) : i \in 1..L
    BY ONLY <1>1, n \in 1..L
  <2>2. SubSeq(text, 1, n) = SubSeq(text, 1, n - 1) \o <<text[n]>>
    BY <2>1, SubSeqRecursiveSecond
  <2>3. text[n] \in Char /\ \A i \in 1..(n - 1) : text[i] \in Char
    BY <1>1, <2>1
  <2>4. SubSeq(text, 1, n - 1) \in Seq(Char)
    BY ONLY <2>1, <2>3, SubSeqProperties
  <2> QED
    BY <2>2, <2>3, <2>4, AppendIsConcat
<1> HIDE DEF L
<1>6. 0 \in Good
  BY <1>3
<1>7. \A n \in 0..(L - 1) : n \in Good => n + 1 \in Good
  <2> SUFFICES ASSUME NEW n \in 0..(L - 1), SpacesOut(text)[n] = SubSeq(text, 1, n)
               PROVE  n + 1 \in Nat
                        /\ SpacesOut(text)[n + 1] = SubSeq(text, 1, n + 1)
    OBVIOUS
  <2>1. n + 1 \in Nat /\ n + 1 \in 1..L /\ (n + 1) - 1 = n
    BY ONLY <1>1, n \in 0..(L - 1)
  <2> QED
    BY <1>2, <1>5, <2>1
<1>8. \A n \in 0..L : n \in Good
  <2> HIDE DEF Good
  <2> QED
    BY <1>1, <1>6, <1>7, Reaches
<1>9. L \in 0..L
  BY ONLY <1>1
<1> QED
  BY <1>4, <1>8, <1>9 DEF L

\* What is left, m characters, of a text that begins with k spaces.
IsRest(rest, m, text, k) ==
  /\ Len(text) = k + m /\ \A i \in 1..k : text[i] = " "
  /\ Len(rest) = m /\ \A n \in 1..m : rest[n] = text[k + n]

\* Leading spaces make no difference.
LEMMA SpacesOutLeading ==
  ASSUME NEW text, NEW k \in Nat, NEW m \in Nat, NEW rest, IsRest(rest, m, text, k)
  PROVE  SpacesOut(rest)[m] = SpacesOut(text)[k + m]
<1> DEFINE Empty == {n \in Nat : SpacesOut(text)[n] = <<>>}
           Same == {n \in Nat : SpacesOut(rest)[n] = SpacesOut(text)[k + n]}
<1>1. /\ k + m \in Nat /\ Len(text) = k + m /\ Len(rest) = m
      /\ \A i \in 1..k : text[i] = " "
      /\ \A n \in 1..m : rest[n] = text[k + n]
  <2>1. k + m \in Nat
    BY ONLY k \in Nat, m \in Nat
  <2>2. Len(text) = k + m /\ Len(rest) = m
    BY ONLY IsRest(rest, m, text, k) DEF IsRest
  <2>3. /\ \A i \in 1..k : text[i] = " "
        /\ \A n \in 1..m : rest[n] = text[k + n]
    BY ONLY IsRest(rest, m, text, k) DEF IsRest
  <2> QED
    BY ONLY <2>1, <2>2, <2>3
<1>2. /\ SpacesOut(text)[0] = <<>>
      /\ \A n \in 1..(k + m) :
           SpacesOut(text)[n] = IF text[n] = " " THEN SpacesOut(text)[n - 1]
                                ELSE Append(SpacesOut(text)[n - 1], text[n])
  <2>1. Len(text) \in Nat /\ Len(text) = k + m
    BY ONLY <1>1
  <2>2. /\ SpacesOut(text)[0] = <<>>
        /\ \A n \in 1..Len(text) :
             SpacesOut(text)[n] = IF text[n] = " " THEN SpacesOut(text)[n - 1]
                                  ELSE Append(SpacesOut(text)[n - 1], text[n])
    BY ONLY <2>1, SpacesOutSteps
  <2> QED
    BY ONLY <2>1, <2>2
<1>3. /\ SpacesOut(rest)[0] = <<>>
      /\ \A n \in 1..m :
           SpacesOut(rest)[n] = IF rest[n] = " " THEN SpacesOut(rest)[n - 1]
                                ELSE Append(SpacesOut(rest)[n - 1], rest[n])
  BY <1>1, SpacesOutSteps
<1>4. \A n \in 0..k : n \in Empty
  <2>1. 0 \in Empty
    BY <1>2
  <2>2. \A n \in 0..(k - 1) : n \in Empty => n + 1 \in Empty
    <3> SUFFICES ASSUME NEW n \in 0..(k - 1), SpacesOut(text)[n] = <<>>
                 PROVE  n + 1 \in Nat /\ SpacesOut(text)[n + 1] = <<>>
      OBVIOUS
    <3>1. n + 1 \in Nat /\ n + 1 \in 1..(k + m) /\ n + 1 \in 1..k /\ (n + 1) - 1 = n
      BY ONLY k \in Nat, m \in Nat, n \in 0..(k - 1)
    <3>2. text[n + 1] = " "
      BY <1>1, <3>1
    <3>3. SpacesOut(text)[n + 1] = SpacesOut(text)[n]
      BY <1>2, <3>1, <3>2
    <3> QED
      BY <3>1, <3>3
  <2> HIDE DEF Empty
  <2> QED
    BY <2>1, <2>2, Reaches
<1>5. \A n \in 0..m : n \in Same
  <2>1. 0 \in Same
    <3>1. SpacesOut(rest)[0] = <<>>
      BY <1>3
    <3>2. k \in 0..k /\ k + 0 = k
      BY ONLY k \in Nat
    <3>3. SpacesOut(text)[k] = <<>>
      BY <1>4, <3>2
    <3> QED
      BY <3>1, <3>2, <3>3
  <2>2. \A n \in 0..(m - 1) : n \in Same => n + 1 \in Same
    <3> SUFFICES ASSUME NEW n \in 0..(m - 1), SpacesOut(rest)[n] = SpacesOut(text)[k + n]
                 PROVE  n + 1 \in Nat
                          /\ SpacesOut(rest)[n + 1] = SpacesOut(text)[k + (n + 1)]
      OBVIOUS
    <3>1. /\ n + 1 \in Nat /\ n + 1 \in 1..m /\ (n + 1) - 1 = n
          /\ k + (n + 1) \in 1..(k + m) /\ (k + (n + 1)) - 1 = k + n
      BY ONLY k \in Nat, m \in Nat, n \in 0..(m - 1)
    <3>2. SpacesOut(rest)[n + 1] = IF rest[n + 1] = " " THEN SpacesOut(rest)[n]
                                   ELSE Append(SpacesOut(rest)[n], rest[n + 1])
      BY <1>3, <3>1
    <3>3. SpacesOut(text)[k + (n + 1)] =
            IF text[k + (n + 1)] = " " THEN SpacesOut(text)[k + n]
            ELSE Append(SpacesOut(text)[k + n], text[k + (n + 1)])
      BY <1>2, <3>1
    <3>4. rest[n + 1] = text[k + (n + 1)]
      BY <1>1, <3>1
    <3> QED
      BY <3>1, <3>2, <3>3, <3>4
  <2> HIDE DEF Same
  <2> QED
    BY <2>1, <2>2, Reaches
<1>6. m \in 0..m
  BY ONLY m \in Nat
<1> QED
  BY <1>5, <1>6

\* The longest run of spaces a text begins with exists.
LEMMA LeadingSpaces ==
  ASSUME NEW text \in Text
  PROVE  \E k \in 0..Len(text) :
           /\ \A i \in 1..k : text[i] = " "
           /\ WithoutLeadingSpaces[text] = SubSeq(text, k + 1, Len(text))
<1>1. Len(text) \in Nat
  BY PanelAssumption, LenProperties
<1>2. \A L \in Nat : \A Runs \in SUBSET (0..L) :
        0 \in Runs => \E k \in Runs : \A n \in Runs : k >= n
  <2> SUFFICES ASSUME NEW L \in Nat, NEW Runs \in SUBSET (0..L), 0 \in Runs
               PROVE  \E k \in Runs : \A n \in Runs : k >= n
    OBVIOUS
  <2> DEFINE Rests == {m \in 0..L : L - m \in Runs}
  <2>1. Rests \subseteq Nat /\ L \in Rests
    OBVIOUS
  <2>2. PICK m \in Rests : \A j \in Rests : m <= j
    <3> HIDE DEF Rests
    <3> QED
      BY <2>1, LeastNat
  <2>3. L - m \in Runs
    OBVIOUS
  <2>4. \A n \in Runs : L - n \in Rests /\ n \in 0..L
    OBVIOUS
  <2>5. \A n \in Runs : L - m >= n
    BY <2>2, <2>4
  <2> QED
    BY <2>3, <2>5
<1> DEFINE Runs == {n \in 0..Len(text) : \A k \in 1..n : text[k] = " "}
<1>3. Runs \in SUBSET (0..Len(text))
  OBVIOUS
<1>4. 0 \in Runs
  <2>1. 0 \in 0..Len(text) /\ \A k \in 1..0 : FALSE
    BY ONLY <1>1
  <2> QED
    BY <2>1
<1>5. WithoutLeadingSpaces[text] = SubSeq(text, Max(Runs) + 1, Len(text))
  BY DEF WithoutLeadingSpaces
<1>6. \A k \in Runs : k \in 0..Len(text) /\ \A i \in 1..k : text[i] = " "
  OBVIOUS
<1> HIDE DEF Runs
<1>7. Max(Runs) \in Runs
  <2>1. \E k \in Runs : \A n \in Runs : k >= n
    BY <1>1, <1>2, <1>3, <1>4
  <2> QED
    BY <2>1 DEF Max
<1> QED
  BY <1>5, <1>6, <1>7

\* What the panel compares: taking the spaces out twice is taking them out once, and a
\* search, which drops the leading ones, loses nothing of it.
LEMMA SpacesDoNotCount ==
  /\ WithoutSpaces[<<>>] = <<>>
  /\ \A text \in Text :
       /\ WithoutSpaces[text] \in Text
            => WithoutSpaces[WithoutSpaces[text]] = WithoutSpaces[text]
       /\ WithoutSpaces[WithoutLeadingSpaces[text]] = WithoutSpaces[text]
<1>1. \A text \in Text : text \in Seq(STRING) /\ WithoutSpaces[text] = SpacesOut(text)[Len(text)]
  BY PanelAssumption DEF WithoutSpaces
<1>2. WithoutSpaces[<<>>] = <<>>
  <2>1. Len(<<>>) = 0 /\ <<>> \in Text
    BY PanelAssumption, EmptySeq
  <2> QED
    BY <1>1, <2>1, SpacesOutSteps
<1>3. ASSUME NEW text \in Text, WithoutSpaces[text] \in Text
      PROVE  WithoutSpaces[WithoutSpaces[text]] = WithoutSpaces[text]
  <2> DEFINE Char == STRING \ {" "}
             u == WithoutSpaces[text]
  <2>1. Len(text) \in Nat
    BY <1>1, LenProperties
  <2>2. \A n \in 1..Len(text) : text[n] = " " \/ text[n] \in Char
    BY <1>1, ElementOfSeq
  <2>3. " " \notin Char
    OBVIOUS
  <2> HIDE DEF Char
  <2>4. \A n \in 0..Len(text) : SpacesOut(text)[n] \in Seq(Char)
    BY <2>1, <2>2, SpacesOutType
  <2>5. Len(text) \in 0..Len(text)
    BY ONLY <2>1
  <2>6. u \in Seq(Char) /\ WithoutSpaces[u] = SpacesOut(u)[Len(u)]
    BY <1>1, <1>3, <2>4, <2>5
  <2> HIDE DEF u
  <2>7. WithoutSpaces[u] = u
    BY <2>3, <2>6, SpacesOutSame
  <2> QED
    BY <2>7 DEF u
<1>4. ASSUME NEW text \in Text
      PROVE  WithoutSpaces[WithoutLeadingSpaces[text]] = WithoutSpaces[text]
  <2>1. PICK k \in 0..Len(text) :
          /\ \A i \in 1..k : text[i] = " "
          /\ WithoutLeadingSpaces[text] = SubSeq(text, k + 1, Len(text))
    BY LeadingSpaces
  <2>2. WithoutLeadingSpaces[text] \in Text
    BY TextAssumption
  <2> DEFINE rest == WithoutLeadingSpaces[text]
  <2>3. rest = SubSeq(text, k + 1, Len(text))
    BY <2>1
  <2> HIDE DEF rest
  <2>4. Len(text) \in Nat /\ \A i \in 1..Len(text) : text[i] \in STRING
    BY <1>1, LenProperties, ElementOfSeq
  <2> DEFINE m == Len(text) - k
  <2>5. k \in Nat /\ m \in Nat /\ Len(text) = k + m
    BY ONLY <2>4, k \in 0..Len(text)
  <2>6. Len(rest) = m /\ \A n \in 1..m : rest[n] = text[k + n]
    <3> HIDE DEF m
    <3>1. k + 1 \in Int /\ k + m \in Int /\ \A i \in (k + 1)..(k + m) : i \in 1..Len(text)
      BY ONLY <2>5
    <3>2. \A i \in (k + 1)..(k + m) : text[i] \in STRING
      BY <2>4, <3>1
    <3>3. /\ Len(rest) = IF k + 1 <= k + m THEN (k + m) - (k + 1) + 1 ELSE 0
          /\ \A i \in 1..((k + m) - (k + 1) + 1) : rest[i] = text[(k + 1) + i - 1]
      BY ONLY <2>3, <2>5, <3>1, <3>2, SubSeqProperties
    <3>4. (k + m) - (k + 1) + 1 = m /\ (~(k + 1 <= k + m) => m = 0)
      BY ONLY <2>5
    <3>5. \A n \in 1..m : (k + 1) + n - 1 = k + n
      BY ONLY <2>5
    <3> QED
      BY <3>3, <3>4, <3>5
  <2> HIDE DEF m
  <2>7. SpacesOut(rest)[m] = SpacesOut(text)[k + m]
    <3>1. k \in Nat /\ m \in Nat
      BY ONLY <2>5
    <3>2. IsRest(rest, m, text, k)
      BY ONLY <2>1, <2>5, <2>6 DEF IsRest
    <3> QED
      BY ONLY <3>1, <3>2, SpacesOutLeading
  <2> QED
    BY <1>1, <2>2, <2>5, <2>6, <2>7 DEF rest
<1> QED
  BY <1>2, <1>3, <1>4

-----------------------------------------------------------------------------
(* No text is forgotten. *)

\* With results of its own window, they are in sight as long as their text is the last.
ResultsInSight == mode = "HTML" /\ lastSearchValue # <<>> => display = "block"

\* A text whose keys are up and whose search is not due is empty or was searched for, or
\* is the one of a panel that nobody uses.
TextIsKnown ==
  ~edited /\ ~keyTimeout =>
    \/ WithoutSpaces[value] = <<>>
    \/ WithoutSpaces[value] = WithoutSpaces[lastSearchValue]
    \/ value = DefaultText /\ (className = Inactive \/ focus = "none")

LEMMA TextInvInit == Init => ResultsInSight /\ TextIsKnown
BY DEF Init, ResultsInSight, TextIsKnown

\* A search makes the text the last one and shows its results.
LEMMA SearchKnowsText ==
  ASSUME FieldTypes, NEW type, Search(type), UNCHANGED <<value, mode>>
  PROVE  ResultsInSight' /\ TextIsKnown'
<1>1. lastSearchValue' = WithoutLeadingSpaces[value] /\ value' = value /\ value \in Text
  BY DEF Search, FieldTypes
<1>2. WithoutSpaces[value'] = WithoutSpaces[lastSearchValue']
  BY <1>1, SpacesDoNotCount
<1>3. ResultsInSight'
  BY DEF Search, ResultsInSight
<1> QED
  BY <1>2, <1>3 DEF TextIsKnown

\* A panel that is activated empties the field of the text of a panel not in use.
LEMMA ActivationKnowsText ==
  ASSUME ResultsInSight, TextIsKnown, Activated,
         UNCHANGED <<edited, keyTimeout, display, mode, lastVars>>
  PROVE  ResultsInSight' /\ TextIsKnown'
<1>1. edited' = edited /\ keyTimeout' = keyTimeout /\ lastSearchValue' = lastSearchValue
  BY DEF lastVars
<1>2. ResultsInSight'
  BY <1>1 DEF ResultsInSight
<1>3. CASE value = DefaultText
  <2>1. value' = <<>>
    BY <1>3 DEF Activated
  <2>2. WithoutSpaces[value'] = <<>>
    BY <2>1, SpacesDoNotCount
  <2> QED
    BY <1>2, <2>2 DEF TextIsKnown
<1>4. CASE value # DefaultText
  <2>1. value' = value
    BY <1>4 DEF Activated
  <2> QED
    BY <1>1, <1>2, <1>4, <2>1 DEF TextIsKnown
<1> QED
  BY <1>3, <1>4

\* The panel goes back to its default state.
LEMMA DeactivationKnowsText ==
  ASSUME InactivateAfterTimeout
  PROVE  ResultsInSight' /\ TextIsKnown'
BY DEF InactivateAfterTimeout, ResultsInSight, TextIsKnown

LEMMA TextInvStep ==
  TypeOK /\ ResultsInSight /\ TextIsKnown /\ [Next]_vars => ResultsInSight' /\ TextIsKnown'
<1> SUFFICES ASSUME TypeOK, ResultsInSight, TextIsKnown, [Next]_vars
             PROVE  ResultsInSight' /\ TextIsKnown'
  OBVIOUS
<1>1. FieldTypes /\ LastTypes
  BY DEF TypeOK
<1>2. mode' = mode
  BY DEF Next, vars, settingVars
\* The steps of the frame leave the text alone.
<1>3. ASSUME UNCHANGED <<focus, value, edited, className, display, timerVars, lastVars>>
      PROVE  ResultsInSight' /\ TextIsKnown'
  BY <1>2, <1>3 DEF timerVars, lastVars, ResultsInSight, TextIsKnown
<1>4. ASSUME NEW control \in {"field", "type"}, Focus(control)
      PROVE  ResultsInSight' /\ TextIsKnown'
  BY <1>2, <1>4, ActivationKnowsText DEF Focus
<1>5. CASE Blur
  <2>1. UNCHANGED <<edited, keyTimeout, display, mode, lastVars>> /\ focus' = "none"
    BY <1>2, <1>5 DEF Blur
  <2>2. CASE Activated
    BY <2>1, <2>2, ActivationKnowsText
  <2>3. CASE DeactivateLater
    BY <2>1, <2>3 DEF DeactivateLater, lastVars, ResultsInSight, TextIsKnown
  <2> QED
    BY <1>5, <2>2, <2>3 DEF Blur
<1>6. ASSUME NEW text \in Text, Edit(text) PROVE ResultsInSight' /\ TextIsKnown'
  BY <1>2, <1>6 DEF Edit, lastVars, ResultsInSight, TextIsKnown
<1>7. CASE OnSearchFieldChange
  <2> DEFINE searchValue == WithoutSpaces[value]
             search == searchValue # lastSearchValue /\ searchValue # <<>>
             emptied == searchValue # lastSearchValue /\ searchValue = <<>>
  <2>1. /\ keyTimeout' = search /\ value' = value
        /\ display' = IF emptied /\ mode = "HTML" THEN "none" ELSE display
        /\ lastSearchValue' = IF emptied THEN <<>> ELSE lastSearchValue
    BY <1>7 DEF OnSearchFieldChange
  <2>2. ResultsInSight'
    BY <1>2, <2>1 DEF ResultsInSight
  \* No search is due: the text was emptied or is, without spaces, the last one.
  <2>3. ASSUME ~keyTimeout', searchValue # <<>>
        PROVE  WithoutSpaces[value'] = WithoutSpaces[lastSearchValue']
    <3>1. searchValue = lastSearchValue /\ lastSearchValue' = lastSearchValue
      BY <2>1, <2>3
    <3>2. searchValue \in Text /\ value \in Text
      BY <1>1, <3>1 DEF LastTypes, FieldTypes
    <3>3. WithoutSpaces[searchValue] = searchValue
      BY <3>2, SpacesDoNotCount
    <3> QED
      BY <2>1, <3>1, <3>3
  <2> QED
    BY <2>1, <2>2, <2>3 DEF TextIsKnown
<1>8. ASSUME NEW type \in SearchType, OnSearchTypeChange(type)
      PROVE  ResultsInSight' /\ TextIsKnown'
  <2>1. UNCHANGED <<value, mode>> /\ edited' = edited
    BY <1>2, <1>8 DEF OnSearchTypeChange
  <2>2. CASE WithoutSpaces[value] # <<>>
    BY <1>1, <1>8, <2>1, <2>2, SearchKnowsText DEF OnSearchTypeChange
  <2>3. CASE WithoutSpaces[value] = <<>>
    BY <1>8, <2>1, <2>3 DEF OnSearchTypeChange, lastVars, ResultsInSight, TextIsKnown
  <2> QED
    BY <2>2, <2>3
<1>9. CASE CloseResultsWindow
  BY <1>9, DeactivationKnowsText DEF CloseResultsWindow
<1>10. CASE FollowLink
  BY <1>3, <1>10 DEF FollowLink
<1>11. CASE KeyTimer
  BY <1>1, <1>2, <1>11, SearchKnowsText DEF KeyTimer
<1>12. CASE InactivateTimer
  BY <1>12, DeactivationKnowsText DEF InactivateTimer
<1>13. CASE PageArrives
  BY <1>3, <1>13 DEF PageArrives
<1>14. CASE PageLoads
  BY <1>3, <1>14 DEF PageLoads
<1>15. CASE UNCHANGED vars
  BY <1>3, <1>15 DEF vars
<1> QED
  BY <1>4, <1>5, <1>6, <1>7, <1>8, <1>9, <1>10, <1>11, <1>12, <1>13, <1>14, <1>15
     DEF Next, User, Browser

\* No text is forgotten: in an active panel whose keys are up and whose search is not due,
\* the field is empty or holds the text of the last search, whose results are in sight.
THEOREM PanelForgetsNoText == Spec => []NoTextIsForgotten
<1>1. Spec => []PanelInv
  BY PanelInvInit, PanelInvStep, PTL DEF Spec
<1>2. PanelInv => TypeOK
  BY DEF PanelInv
<1>3. Spec => [](TypeOK /\ ResultsInSight /\ TextIsKnown)
  BY <1>1, <1>2, TextInvInit, TextInvStep, PTL DEF Spec
<1>4. TypeOK /\ ResultsInSight /\ TextIsKnown => NoTextIsForgotten
  <2> SUFFICES ASSUME ResultsInSight, TextIsKnown, focus = "field", className = Active,
                      ~edited, ~keyTimeout, WithoutSpaces[value] # <<>>
               PROVE  /\ WithoutSpaces[value] = WithoutSpaces[lastSearchValue]
                      /\ mode = "HTML" => display = "block"
    BY DEF NoTextIsForgotten
  <2>1. WithoutSpaces[value] = WithoutSpaces[lastSearchValue]
    BY DEF TextIsKnown, Active, Inactive
  <2>2. lastSearchValue # <<>>
    BY <2>1, SpacesDoNotCount
  <2> QED
    BY <2>1, <2>2 DEF ResultsInSight
<1> QED
  BY <1>3, <1>4, PTL
=============================================================================
