---------------------------- MODULE MC_Documents ----------------------------
(***************************************************************************)
(* A menu of four groups; all documents of five elements; a page of        *)
(* content with four links and three blockquotes, in windows narrower and  *)
(* wider than the narrowing; and all sections of the generated results.    *)
(***************************************************************************)
EXTENDS Documents

\* One link whose tip fits anywhere, one near the right border, one out on the left whose
\* tip is wider than a narrow page, and one whose position is not known.
MCLink == {"near", "right", "wide", "lost"}
MCOffsetLeft ==
  [near |-> <<20, 10>>, right |-> <<100, 0, 590>>, wide |-> <<10, -30>>, lost |-> <<>>]
MCTipWidth == [near |-> 20, right |-> 80, wide |-> 400, lost |-> 80]

\* Two of the boxes in one parent, and browsers that bear other browsers' names.
MCParent == [quote |-> "page", code |-> "page", prototype |-> "cell"]
MCAgent == {{}, {"msie", "msie 6"}, {"msie", "msie 7"}, {"msie", "msie 6", "opera", "opera 8"},
            {"applewebkit", "khtml", "gecko", "version/3"}, {"khtml", "msie", "msie 6"},
            {"gecko", "rv:1.8.1"}}

\* A name for every file of docs/html/search, by its first character.  The tilde stands for
\* the backtick that all macros begin with.
Generated == [
  Variables |-> <<"A", "B", "C", "D", "E", "F", "H", "I", "K", "L", "M", "N", "O", "P",
                  "R", "S", "+", "T", "U", "V">>,
  Files     |-> <<"U">>,
  Constants |-> <<"B", "C", "E", "F", "P", "S", "U">>,
  Ports     |-> <<"A", "B", "G", "M", "P", "R", "S", "T">>,
  Classes   |-> <<"P", "U">>,
  Methods   |-> <<"A", "B", "C", "D", "E", "F", "G", "H", "I", "J", "K", "L", "M", "N",
                  "P", "R", "S", "T", "U", "W">>,
  Types     |-> <<"A", "L", "U">>,
  Macros    |-> <<"~">>]

EntriesOf(type) ==
  [n \in DOMAIN Generated[type] |-> [type |-> type, name |-> <<Generated[type][n]>>]]

\* Names that have their beginnings in common, some with the letters of an encoding.
Alike == <<<<"u">>, <<"u", "n", "d">>, <<"u", "_", "n">>, <<"u", "_">>, <<"u", " ", "n">>,
           <<"u", "_">>, <<"u", "/", "n">>>>

MCEntry ==
  FlattenSeq(<<EntriesOf("Variables"), EntriesOf("Files"), EntriesOf("Constants"),
               EntriesOf("Ports"), EntriesOf("Classes"), EntriesOf("Methods"),
               EntriesOf("Types"), EntriesOf("Macros"),
               [n \in DOMAIN Alike |-> [type |-> "Methods", name |-> Alike[n]]],
               <<[type |-> "Macros", name |-> <<"_", "u">>]>>>>)

\* Every first character, and texts of two or three that go on from "u" and "_".
FirstCharacters ==
  {LowerCase[n] : n \in 1..26} \cup {UpperCase[n] : n \in 1..26} \cup Digits
    \cup {"_", "~", "+", "$"}
MCSearchText ==
  {<<c>> : c \in FirstCharacters}
    \cup {<<c, d>> : c \in {"u", "U", "_", " "}, d \in {"u", "n", "_", "/"}}
    \cup {<<"u", c, d>> : c \in {"_", " ", "n"}, d \in {"N", "d", " ", "_"}}
    \cup {<<"u", " ", " ", "n">>, <<" ", "u", "_", "N">>, <<"u", "_", "n", " ">>, <<"u", " ">>}
=============================================================================
