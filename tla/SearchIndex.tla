----------------------------- MODULE SearchIndex -----------------------------
(***************************************************************************)
(* Which page of the documentation a search goes to: searchdata.js, the    *)
(* table of the result pages Natural Docs has generated, and the part of   *)
(* SearchPanel.Search that chooses among them.  A text is a sequence of    *)
(* characters.                                                             *)
(***************************************************************************)
EXTENDS Naturals, Sequences

LowerCase == <<"a", "b", "c", "d", "e", "f", "g", "h", "i", "j", "k", "l", "m",
               "n", "o", "p", "q", "r", "s", "t", "u", "v", "w", "x", "y", "z">>
UpperCase == <<"A", "B", "C", "D", "E", "F", "G", "H", "I", "J", "K", "L", "M",
               "N", "O", "P", "Q", "R", "S", "T", "U", "V", "W", "X", "Y", "Z">>
Digits == {"0", "1", "2", "3", "4", "5", "6", "7", "8", "9"}

\* The sections of each search type that are true in the table.
indexSectionsWithContent == [
  General   |-> {"Symbols", "A", "B", "C", "D", "E", "F", "G", "H", "I", "J", "K", "L",
                 "M", "N", "O", "P", "R", "S", "T", "U", "V", "W"},
  Variables |-> {"Symbols", "A", "B", "C", "D", "E", "F", "H", "I", "K", "L", "M", "N",
                 "O", "P", "R", "S", "T", "U", "V"},
  Files     |-> {"U"},
  Constants |-> {"B", "C", "E", "F", "P", "S", "U"},
  Ports     |-> {"A", "B", "G", "M", "P", "R", "S", "T"},
  Classes   |-> {"P", "U"},
  Methods   |-> {"A", "B", "C", "D", "E", "F", "G", "H", "I", "J", "K", "L", "M", "N",
                 "P", "R", "S", "T", "U", "W"},
  Types     |-> {"A", "L", "U"},
  Macros    |-> {"Symbols"}]

\* The section of a text: of its first letter, whatever its case, of all digits, or of
\* everything else, the empty text included.
PageExtension(text) ==
  LET letter == {n \in 1..26 : text # <<>> /\ text[1] \in {LowerCase[n], UpperCase[n]}}
  IN CASE letter # {} -> UpperCase[CHOOSE n \in letter : TRUE]
       [] text # <<>> /\ letter = {} /\ text[1] \in Digits -> "Numbers"
       [] OTHER -> "Symbols"

\* NoResults.html has no script: it is no page of results.
NoResults == <<"NoResults">>

ResultsPage(searchTopic, text) ==
  IF PageExtension(text) \in indexSectionsWithContent[searchTopic]
    THEN <<searchTopic, PageExtension(text)>>
    ELSE NoResults
=============================================================================
