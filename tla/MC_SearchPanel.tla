--------------------------- MODULE MC_SearchPanel ---------------------------
(***************************************************************************)
(* The search panel with a few texts: some that differ by a space between  *)
(* the words or in front, and the text a panel not in use shows.  "Files"  *)
(* has a page for "u" and none for "Search".  The panel of menu.html, and  *)
(* the one with a results window of its own, in Internet Explorer.         *)
(***************************************************************************)
EXTENDS SearchPanel

MenuPanel == [mode |-> "FramedHTML", browserType |-> "Firefox"]
MCSetting == {MenuPanel, [mode |-> "HTML", browserType |-> "IE"]}
StaleSetting == {MenuPanel}
MCText == {<<>>, <<"u", "v">>, <<" ", "u", "v">>, <<"u", " ", "v">>, DefaultText}
MCUnmatched == {<<"u", " ", "v">>, DefaultText}
=============================================================================
