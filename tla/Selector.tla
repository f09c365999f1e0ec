------------------------------ MODULE Selector ------------------------------
(***************************************************************************)
(* ui_selector's cursor: offset points into a list of count entries, shown *)
(* in pages of rows entries.  Every list of the menu moves this way.       *)
(***************************************************************************)
EXTENDS Naturals

Bounded(o, count) == IF count > 0 /\ o >= count THEN count - 1 ELSE o

(* Up wraps within the page; a short last page is bounded by the list.      *)
KeyUp(o, count, rows) ==
    Bounded(IF o % rows = 0 THEN o + (rows - 1) ELSE o - 1, count)

(* Down wraps within the page.                                              *)
KeyDown(o, count, rows) ==
    Bounded(IF o + 1 = count THEN o - (o % rows)
            ELSE IF (o + 1) % rows = 0 THEN o - (rows - 1)
            ELSE o + 1, count)

(* Right and left turn pages.                                               *)
KeyRight(o, count, rows) ==
    Bounded(IF o - (o % rows) + rows < count THEN o + rows ELSE o, count)

KeyLeft(o, count, rows) ==
    Bounded(IF o >= rows THEN o - rows ELSE o, count)

Moved(o, count, rows) ==
    {KeyUp(o, count, rows), KeyDown(o, count, rows), KeyRight(o, count, rows), KeyLeft(o, count, rows)}
=============================================================================
