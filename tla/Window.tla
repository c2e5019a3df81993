------------------------------- MODULE Window -------------------------------
(***************************************************************************)
(* The browser's window, which all scripts of a page share.                *)
(***************************************************************************)
EXTENDS Naturals

CONSTANT DocWidth        \* the widths it can have

ASSUME WidthAssumption == DocWidth \subseteq Nat \ {0}

VARIABLE docWidth
=============================================================================
