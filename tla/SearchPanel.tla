----------------------------- MODULE SearchPanel -----------------------------
(***************************************************************************)
(* The search panel of the documentation, class SearchPanel of main.js: a  *)
(* text field and a select, the timer between a keystroke and the search,  *)
(* the timer between the loss of the focus and the deactivation, and the   *)
(* frame the results are loaded into.                                      *)
(*                                                                         *)
(* Handlers and timer callbacks run one at a time; which comes next is     *)
(* open.  A timer that is set may fire at any later moment, and a page     *)
(* that is asked for may arrive at any later moment, the old one staying   *)
(* in the frame until then.                                                *)
(***************************************************************************)
EXTENDS SearchIndex, FiniteSetsExt

CONSTANTS Setting,       \* the modes the panel may be made for, and the browsers
          Text,          \* what may stand in the search field
          SearchType,    \* the options of the select
          Unmatched,     \* the texts no row of any page of results begins with
          TimerBound     \* how many timers of a kind are pending at a time

ASSUME PanelAssumption ==
  /\ Setting \subseteq [mode : {"HTML", "FramedHTML"}, browserType : STRING]
  /\ Text \subseteq Seq(STRING) /\ <<>> \in Text
  /\ SearchType \subseteq DOMAIN indexSectionsWithContent /\ "General" \in SearchType
  /\ Unmatched \subseteq Text
  /\ TimerBound \in Nat \ {0}

VARIABLES
  mode, browserType,   \* "FramedHTML": results in the content frame; "HTML": in a popup
  focus,               \* the control that has it: "field", "type", or "none" of them
  value, searchTopic,  \* of the field and of the select
  edited,              \* value has changed since its last keyup
  className,           \* of the panel
  display,             \* of the results window
  keyTimeout, inactivateTimeout,      \* the handles: whether they are set
  keyTimers, inactivateTimers,        \* the timers the browser holds
  lastSearchValue, lastResultsPage,
  frame,               \* the document in the results frame
  loading,             \* the page it has been sent to
  overtaken            \* history: a search was run in a document about to be replaced

timerVars == <<keyTimeout, inactivateTimeout, keyTimers, inactivateTimers>>
lastVars == <<lastSearchValue, lastResultsPage>>
frameVars == <<frame, loading, overtaken>>
settingVars == <<mode, browserType>>
vars == <<settingVars, focus, value, searchTopic, edited, className, display, timerVars, lastVars,
          frameVars>>

Active == "MSearchPanelActive"
Inactive == "MSearchPanelInactive"
DefaultText == <<"S", "e", "a", "r", "c", "h">>

\* What is left of the first characters of a text when its spaces are taken out.
SpacesOut(text) ==
  LET kept[n \in 0..Len(text)] ==
        IF n = 0 THEN <<>>
        ELSE IF text[n] = " " THEN kept[n - 1] ELSE Append(kept[n - 1], text[n])
  IN kept

\* value.replace(/ +/g, ""), value.replace(/^ +/, ""), and the page for a text, as
\* functions: TLC computes each of them once.
WithoutSpaces == [text \in Text |-> SpacesOut(text)[Len(text)]]
WithoutLeadingSpaces ==
  LET Spaces(text) == Max({n \in 0..Len(text) : \A k \in 1..n : text[k] = " "})
  IN [text \in Text |-> SubSeq(text, Spaces(text) + 1, Len(text))]
PageFor == [type \in SearchType |-> [text \in Text |-> ResultsPage(type, text)]]

\* What the panel puts into the field, and what a search makes of a text, are texts.
ASSUME TextAssumption ==
  /\ DefaultText \in Text
  /\ \A text \in Text : WithoutLeadingSpaces[text] \in Text

\* Pages of results, and the frame: which page, the query of its URL, whether its
\* scripts have run (only then is there an object searchResults), and the text its rows
\* were last filtered by.
ContentPage == <<"Content">>
NoPage == <<>>
HasScript(page) == page \notin {NoPage, NoResults, ContentPage}
HasSearchResults(document) == document.ready /\ HasScript(document.page)
NotLoading == [page |-> NoPage, query |-> <<>>]

Init ==
  /\ \E setting \in Setting :
       mode = setting.mode /\ browserType = setting.browserType
  /\ focus = "none" /\ value = DefaultText /\ searchTopic = "General"
  /\ edited = FALSE
  /\ className = Inactive /\ display = "none"
  /\ keyTimeout = FALSE /\ inactivateTimeout = FALSE
  /\ keyTimers = 0 /\ inactivateTimers = 0
  /\ lastSearchValue = <<>> /\ lastResultsPage = NoPage
  /\ frame = [page |-> ContentPage, query |-> <<>>, ready |-> TRUE, filter |-> <<>>]
  /\ loading = NotLoading
  /\ overtaken = FALSE
-----------------------------------------------------------------------------
(* Search. *)

GoTo(page, query) ==
  /\ loading' = [page |-> page, query |-> query]
  /\ overtaken' = FALSE
  /\ UNCHANGED frame

\* searchResults.Search: an empty text is taken for no text, and the URL is asked.
Refilter(searchValue) ==
  /\ frame' = [frame EXCEPT !.filter = IF searchValue = <<>> THEN frame.query ELSE searchValue]
  /\ overtaken' = (loading # NotLoading)
  /\ UNCHANGED loading

\* Whether the page is asked for although the panel was there last.
IEBug(resultsPage) ==
  /\ browserType = "IE" /\ resultsPage # NoResults
  /\ HasSearchResults(frame) => frame.filter \in Unmatched

\* MUTANTS of ShowResults: the search is not repeated on the same page; the bug in IE is not
\* known.
ShowResults_NotAgain(resultsPage, searchValue) ==
  IF resultsPage # lastResultsPage \/ IEBug(resultsPage) THEN GoTo(resultsPage, searchValue)
                                                         ELSE UNCHANGED frameVars

ShowResults_NoIEBug(resultsPage, searchValue) ==
  IF resultsPage # lastResultsPage \/ (resultsPage # NoResults /\ ~HasSearchResults(frame))
    THEN GoTo(resultsPage, searchValue)
    ELSE IF resultsPage # NoResults THEN Refilter(searchValue) ELSE UNCHANGED frameVars

ShowResults(resultsPage, searchValue) ==
  \/ /\ resultsPage # lastResultsPage \/ IEBug(resultsPage)
     /\ GoTo(resultsPage, IF resultsPage = NoResults THEN <<>> ELSE searchValue)
  \/ /\ resultsPage = lastResultsPage /\ ~IEBug(resultsPage)
     /\ resultsPage # NoResults
     /\ IF HasSearchResults(frame) THEN Refilter(searchValue)
                                   ELSE GoTo(resultsPage, searchValue)
  \/ /\ resultsPage = lastResultsPage /\ resultsPage = NoResults
     /\ UNCHANGED frameVars

Search(type) ==
  LET searchValue == WithoutLeadingSpaces[value]
      resultsPage == PageFor[type][searchValue]
  IN /\ keyTimeout' = FALSE
     /\ ShowResults(resultsPage, searchValue)
     /\ display' = IF mode = "HTML" THEN "block" ELSE display
     /\ lastSearchValue' = searchValue /\ lastResultsPage' = resultsPage
-----------------------------------------------------------------------------
(* Activation. *)

InactivateAfterTimeout ==
  /\ inactivateTimeout' = FALSE
  /\ className' = Inactive
  /\ value' = DefaultText /\ edited' = FALSE
  /\ lastSearchValue' = <<>> /\ lastResultsPage' = NoPage

\* MUTANT of Activated: the pending deactivation is not called off.
Activated_StillDue ==
  /\ className' = Active
  /\ value' = IF value = DefaultText THEN <<>> ELSE value
  /\ UNCHANGED <<inactivateTimeout, inactivateTimers>>

\* Activate, its first branch.
Activated ==
  /\ inactivateTimeout' = FALSE
  /\ inactivateTimers' = inactivateTimers - (IF inactivateTimeout THEN 1 ELSE 0)
  /\ className' = Active
  /\ value' = IF value = DefaultText THEN <<>> ELSE value

\* MUTANT of DeactivateLater: nothing is scheduled.
DeactivateLater_Never == UNCHANGED <<inactivateTimeout, inactivateTimers, className, value>>

\* Activate, its second branch.
DeactivateLater ==
  /\ inactivateTimeout' = TRUE
  /\ inactivateTimers' = inactivateTimers + 1
  /\ UNCHANGED <<className, value>>
-----------------------------------------------------------------------------
(* The events of the panel. *)

\* OnSearchFieldFocus(true), OnSearchTypeFocus(true).
Focus(control) ==
  /\ focus = "none" /\ focus' = control
  /\ Activated
  /\ UNCHANGED <<searchTopic, edited, display, keyTimeout, keyTimers, lastVars, frameVars>>

\* OnSearchFieldFocus(false), OnSearchTypeFocus(false).
Blur ==
  /\ focus # "none" /\ focus' = "none"
  /\ IF mode = "HTML" /\ display = "block"
       THEN Activated
       ELSE inactivateTimers < TimerBound /\ DeactivateLater
  /\ UNCHANGED <<searchTopic, edited, display, keyTimeout, keyTimers, lastVars, frameVars>>

\* A key goes down and changes the text: the panel hears of it when the key comes up.
Edit(text) ==
  /\ focus = "field" /\ text # value
  /\ value' = text /\ edited' = TRUE
  /\ UNCHANGED <<focus, searchTopic, className, display, timerVars, lastVars, frameVars>>

\* MUTANT of OnSearchFieldChange: an emptied field leaves the last search as it is.
OnSearchFieldChange_KeepsLast ==
  LET searchValue == WithoutSpaces[value]
      cleared == keyTimers - (IF keyTimeout THEN 1 ELSE 0)
      search == searchValue # lastSearchValue /\ searchValue # <<>>
      emptied == searchValue # lastSearchValue /\ searchValue = <<>>
  IN /\ focus = "field" /\ edited' = FALSE
     /\ cleared < TimerBound
     /\ keyTimeout' = search
     /\ keyTimers' = cleared + (IF search THEN 1 ELSE 0)
     /\ display' = IF emptied /\ mode = "HTML" THEN "none" ELSE display
     /\ UNCHANGED <<focus, value, searchTopic, className, inactivateTimeout,
                    inactivateTimers, lastVars, frameVars>>

\* OnSearchFieldChange: a key comes up in the field, whether it has changed the text
\* or not.
OnSearchFieldChange ==
  LET searchValue == WithoutSpaces[value]
      cleared == keyTimers - (IF keyTimeout THEN 1 ELSE 0)
      search == searchValue # lastSearchValue /\ searchValue # <<>>
      emptied == searchValue # lastSearchValue /\ searchValue = <<>>
  IN /\ focus = "field" /\ edited' = FALSE
     /\ cleared < TimerBound
     /\ keyTimeout' = search
     /\ keyTimers' = cleared + (IF search THEN 1 ELSE 0)
     /\ display' = IF emptied /\ mode = "HTML" THEN "none" ELSE display
     /\ lastSearchValue' = IF emptied THEN <<>> ELSE lastSearchValue
     /\ UNCHANGED <<focus, value, searchTopic, className, inactivateTimeout,
                    inactivateTimers, lastResultsPage, frameVars>>

\* OnSearchTypeChange.
OnSearchTypeChange(type) ==
  /\ focus = "type" /\ type # searchTopic
  /\ searchTopic' = type
  /\ IF WithoutSpaces[value] # <<>> THEN Search(type)
                                    ELSE UNCHANGED <<display, keyTimeout, lastVars, frameVars>>
  /\ UNCHANGED <<focus, value, edited, className, inactivateTimeout, keyTimers,
                 inactivateTimers>>

\* CloseResultsWindow: the link in the popup window.
CloseResultsWindow ==
  /\ mode = "HTML" /\ display = "block" /\ focus = "none"
  /\ display' = "none"
  /\ InactivateAfterTimeout
  /\ UNCHANGED <<focus, searchTopic, keyTimeout, keyTimers, inactivateTimers, frameVars>>
-----------------------------------------------------------------------------
(* The browser. *)

KeyTimer ==
  /\ keyTimers > 0 /\ keyTimers' = keyTimers - 1
  /\ Search(searchTopic)
  /\ UNCHANGED <<focus, value, searchTopic, edited, className, inactivateTimeout,
                 inactivateTimers>>

InactivateTimer ==
  /\ inactivateTimers > 0 /\ inactivateTimers' = inactivateTimers - 1
  /\ InactivateAfterTimeout
  /\ UNCHANGED <<focus, searchTopic, display, keyTimeout, keyTimers, frameVars>>

\* The page that was asked for takes the place of the old one, and has loaded: its last
\* script makes the object searchResults and searches for the query of the URL.
PageArrives ==
  /\ loading # NotLoading /\ loading' = NotLoading
  /\ frame' = [page |-> loading.page, query |-> loading.query,
               ready |-> FALSE, filter |-> <<>>]
  /\ overtaken' = overtaken
  /\ UNCHANGED <<focus, value, searchTopic, edited, className, display, timerVars, lastVars>>

PageLoads ==
  /\ ~frame.ready
  /\ frame' = [frame EXCEPT !.ready = TRUE, !.filter = frame.query]
  /\ UNCHANGED <<focus, value, searchTopic, edited, className, display, timerVars, lastVars,
                 loading, overtaken>>

\* A link of the menu or of a page leads the content frame elsewhere.
FollowLink ==
  /\ mode = "FramedHTML" /\ focus = "none"
  /\ GoTo(ContentPage, <<>>)
  /\ UNCHANGED <<focus, value, searchTopic, edited, className, display, timerVars, lastVars>>

User ==
  \/ \E control \in {"field", "type"} : Focus(control)
  \/ Blur
  \/ \E text \in Text : Edit(text)
  \/ OnSearchFieldChange
  \/ \E type \in SearchType : OnSearchTypeChange(type)
  \/ CloseResultsWindow
  \/ FollowLink

Browser == KeyTimer \/ InactivateTimer \/ PageArrives \/ PageLoads

\* The mode is the panel's, the browser the page's, for good.
Next == (User \/ Browser) /\ UNCHANGED settingVars

\* A timer that is due fires; nobody has to type.
Spec == Init /\ [][Next]_vars
             /\ WF_vars(InactivateTimer /\ UNCHANGED settingVars)
-----------------------------------------------------------------------------
(* Properties. *)

Pages == {NoPage, NoResults, ContentPage}
           \cup {<<type, PageExtension(text)>> : type \in SearchType, text \in Text}

FieldTypes ==
  /\ focus \in {"field", "type", "none"}
  /\ value \in Text /\ searchTopic \in SearchType
  /\ edited \in BOOLEAN
  /\ className \in {Active, Inactive} /\ display \in {"block", "none"}

TimerTypes ==
  /\ keyTimeout \in BOOLEAN /\ inactivateTimeout \in BOOLEAN
  /\ keyTimers \in 0..TimerBound /\ inactivateTimers \in 0..TimerBound

LastTypes == lastSearchValue \in Text /\ lastResultsPage \in Pages \ {ContentPage}

FrameTypes ==
  /\ frame \in [page : Pages, query : Text, ready : BOOLEAN, filter : Text]
  /\ loading \in [page : Pages, query : Text]
  /\ overtaken \in BOOLEAN

TypeOK ==
  /\ [mode |-> mode, browserType |-> browserType] \in Setting
  /\ FieldTypes /\ TimerTypes /\ LastTypes /\ FrameTypes

\* The panel stays active under the user's hands: while a control has the focus the panel
\* is active and no deactivation is on its way, whatever went between its controls.  With
\* the results in the content frame, where nothing but the timer deactivates the panel.
FocusedPanelStaysActive ==
  (mode = "FramedHTML" /\ focus # "none") => className = Active /\ inactivateTimers = 0

\* No text is forgotten: when the keys are up and no search is due, the field of an active
\* panel is empty or holds, up to spaces, the text of the last search, whose results are
\* in sight, in spite of the searches that the select and late timers have made and the
\* visitor's emptying the field and filling it again.
NoTextIsForgotten ==
  (focus = "field" /\ className = Active /\ ~edited /\ ~keyTimeout)
    => \/ WithoutSpaces[value] = <<>>
       \/ /\ WithoutSpaces[value] = WithoutSpaces[lastSearchValue]
          /\ mode = "HTML" => display = "block"

\* Once everything has loaded, the rows shown are those of the last search.
SettledOnLastSearch ==
  (loading = NotLoading /\ HasSearchResults(frame) /\ frame.page = lastResultsPage
     /\ lastSearchValue # <<>>) => frame.filter = lastSearchValue

\* The page that lastResultsPage names is in the frame or on its way there, unless a link
\* has led the frame elsewhere: a search on "the same page" meets that page.  And the rows
\* shown in the end are those of the last search, but for one case: a search that was run
\* in a document about to be replaced is lost.
FrameFollowsLastSearch ==
  /\ lastResultsPage # NoPage =>
       (IF loading = NotLoading THEN frame.page ELSE loading.page)
         \in {lastResultsPage, ContentPage}
  /\ ~overtaken => SettledOnLastSearch

\* Internet Explorer cannot show rows again when all of them are hidden: no search is
\* run in a document in which the last one found nothing.
NeverReusesAnEmptyPage ==
  [][ (browserType = "IE" /\ frame' # frame /\ frame.ready /\ frame'.ready
         /\ frame'.page = frame.page)
        => frame.filter \notin Unmatched ]_vars

\* A panel that is left goes back to its default state, unless the results window is
\* open: a deactivation that is put off is not forgotten.
LeftPanelIsReset ==
  (focus = "none" /\ display = "none")
    ~> (className = Inactive \/ focus # "none" \/ display = "block")

\* What a comment says, and what does not hold.

\* "if the results page is right [...], reperform the search on the existing page".
ReperformsOnTheRightPage == SettledOnLastSearch
=============================================================================
