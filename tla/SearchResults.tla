---------------------------- MODULE SearchResults ----------------------------
(***************************************************************************)
(* The pages of search results and what they show: class SearchResults of  *)
(* main.js, Search, on the page that SearchPanel.Search has chosen by      *)
(* searchdata.js.  Natural Docs has generated a page of rows for every     *)
(* search type and section that anything begins with.  Rows carry their    *)
(* name in their id, in an encoding: every character that is no letter or  *)
(* digit stands there as "_" and three letters.                            *)
(***************************************************************************)
EXTENDS SearchIndex, SequencesExt

CONSTANTS Entry,      \* what the documentation has, in order: [type, name]
          SearchText  \* what can be searched for

VARIABLES
  page,                   \* the page in the frame
  rowDisplay, noMatches,  \* the style of its rows, and of the line "No Matches"
  lastMatchCount,
  last                    \* history: what was searched for last, of which type

resultVars == <<page, rowDisplay, noMatches, lastMatchCount, last>>
-----------------------------------------------------------------------------
(* The encoding.  The backtick and the double quote have codes, too, "_tik" and "_quo". *)

Character == <<"_", " ", "~", "!", "@", "#", "$", "%", "^", "&", "*", "(", ")", "-", "+",
               "=", "{", "}", "[", "]", ":", ";", "'", "<", ">", ",", ".", "?", "/">>
CodeOf ==
  <<<<"u", "n", "d">>, <<"s", "p", "c">>, <<"t", "i", "l">>, <<"e", "x", "c">>,
    <<"a", "t", "t">>, <<"n", "u", "m">>, <<"d", "o", "l">>, <<"p", "c", "t">>,
    <<"c", "a", "r">>, <<"a", "m", "p">>, <<"a", "s", "t">>, <<"l", "p", "a">>,
    <<"r", "p", "a">>, <<"m", "i", "n">>, <<"p", "l", "u">>, <<"e", "q", "u">>,
    <<"l", "b", "c">>, <<"r", "b", "c">>, <<"l", "b", "k">>, <<"r", "b", "k">>,
    <<"c", "o", "l">>, <<"s", "c", "o">>, <<"a", "p", "o">>, <<"l", "a", "n">>,
    <<"r", "a", "n">>, <<"c", "o", "m">>, <<"p", "e", "r">>, <<"q", "u", "e">>,
    <<"s", "l", "a">>>>

Code(c) == IF \E k \in 1..29 : Character[k] = c
             THEN <<"_">> \o CodeOf[CHOOSE k \in 1..29 : Character[k] = c]
             ELSE <<c>>

Lower(c) == IF \E k \in 1..26 : UpperCase[k] = c
              THEN LowerCase[CHOOSE k \in 1..26 : UpperCase[k] = c]
              ELSE c
toLowerCase(text) == [n \in DOMAIN text |-> Lower(text[n])]

\* Of a run of spaces the first one only, as / +/ takes it for one.
Repeated(text, n) == n > 1 /\ text[n] = " " /\ text[n - 1] = " "
Encode(text) ==
  FlattenSeq([n \in DOMAIN text |-> IF Repeated(text, n) THEN <<>> ELSE Code(text[n])])

\* replace(/^ +/, "") and replace(/ +$/, "").
Trim(text) ==
  LET full == {n \in DOMAIN text : text[n] # " "}
  IN IF full = {} THEN <<>> ELSE SubSeq(text, Min(full), Max(full))

\* The rows of the pages.
Section == [n \in DOMAIN Entry |-> PageExtension(Entry[n].name)]
Rows ==
  [type \in DOMAIN indexSectionsWithContent |->
     [section \in {Section[n] : n \in DOMAIN Entry} |->
        {n \in DOMAIN Entry : type \in {Entry[n].type, "General"} /\ Section[n] = section}]]

RowsOn(p) == Rows[p[1]][p[2]]

\* Texts are of letters, digits and the characters that have codes, and a search wants
\* something other than spaces.  Titles do not begin or end with a space, and the table of
\* searchdata.js has the sections of the entries of a type.
Char == {LowerCase[k] : k \in 1..26} \cup {UpperCase[k] : k \in 1..26} \cup Digits
          \cup {Character[k] : k \in 1..29}

ASSUME ResultsAssumption ==
  /\ Entry \in Seq([type : DOMAIN indexSectionsWithContent \ {"General"}, name : Seq(Char)])
  /\ SearchText \subseteq Seq(Char) /\ \A text \in SearchText : Trim(text) # <<>>
  /\ \A n \in DOMAIN Entry : Trim(Entry[n].name) = Entry[n].name
  /\ \A type \in DOMAIN indexSectionsWithContent :
       indexSectionsWithContent[type] =
         {Section[n] : n \in {k \in DOMAIN Entry : type \in {Entry[k].type, "General"}}}

\* The id of a row: "SR", a number where the name is on the page more than once, "_" and
\* the encoded name.
RowId(n) ==
  LET twin == {k \in 1..n : Entry[k].name = Entry[n].name}
  IN <<"S", "R">> \o (IF twin = {n} THEN <<>> ELSE <<"2">>) \o <<"_">> \o Encode(Entry[n].name)
-----------------------------------------------------------------------------
(* Search. *)

\* A row's lower-case id without /^sr\d*_/.
MatchName(id) == SubSeq(id, Min({k \in DOMAIN id : id[k] = "_"}) + 1, Len(id))

\* rowMatchName of each row.
RowMatchName == [n \in DOMAIN Entry |-> MatchName(toLowerCase(RowId(n)))]

\* MUTANT of Sought: spaces at the ends are left.
Sought_Untrimmed(text) == Encode(toLowerCase(text))

Sought(text) == Encode(toLowerCase(Trim(text)))

\* The rows, of any page, that a search finds.
Found ==
  [text \in SearchText |->
     LET search == Sought(text) IN {n \in DOMAIN Entry : IsPrefix(search, RowMatchName[n])}]

\* Search on a page.
Search(p, text) ==
  LET found == Found[text] \cap RowsOn(p)
  IN /\ rowDisplay' = [n \in RowsOn(p) |-> IF n \in found THEN "block" ELSE "none"]
     /\ lastMatchCount' = Cardinality(found)
     /\ noMatches' = IF found = {} THEN "block" ELSE "none"

\* The panel's search: the page it leads to, if it is another, is loaded and searches for
\* the query of its URL, the text; otherwise the page there is is searched.  NoResults.html
\* has no rows and no script, and says what "No Matches" says.
LookFor(type, text) ==
  LET target == ResultsPage(type, Trim(text))
  IN /\ page' = target
     /\ IF target = NoResults
          THEN rowDisplay' = <<>> /\ lastMatchCount' = 0 /\ noMatches' = "block"
          ELSE Search(target, text)
     /\ last' = [type |-> type, text |-> text]

ResultInit ==
  /\ page = NoResults
  /\ rowDisplay = <<>> /\ lastMatchCount = 0 /\ noMatches = "block"
  /\ last = [type |-> "General", text |-> <<>>]

ResultNext ==
  \E type \in DOMAIN indexSectionsWithContent, text \in SearchText : LookFor(type, text)
-----------------------------------------------------------------------------
(* Properties. *)

\* A text as it is meant: without case, without spaces at its ends, a run of spaces as one.
Squeezed(text) ==
  FlattenSeq([n \in DOMAIN text |-> IF Repeated(text, n) THEN <<>> ELSE <<text[n]>>])
Meant(text) == Squeezed(toLowerCase(Trim(text)))

\* What the documentation has that begins with a text.
Beginning ==
  [text \in SearchText |->
     LET meant == Meant(text)
     IN {n \in DOMAIN Entry : IsPrefix(meant, Meant(Entry[n].name))}]

\* A search shows everything of its type that begins with the text, and nothing else, and
\* says "No Matches" only if there is nothing: the table, the choice of the section and
\* the generated pages agree, the encoding mixes no two characters up and makes no text
\* begin a name that it does not.
FindsWhatThereIs ==
  LET wanted == {n \in Beginning[last.text] : last.type \in {Entry[n].type, "General"}}
  IN last.text \in SearchText =>
       /\ {n \in DOMAIN rowDisplay : rowDisplay[n] = "block"} = wanted
       /\ noMatches = (IF wanted = {} THEN "block" ELSE "none")
       /\ lastMatchCount = Cardinality(wanted)
=============================================================================
