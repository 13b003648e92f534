--------------------------- MODULE MCTouchPointer ---------------------------
EXTENDS TouchPointer

Table(pages, paged) == [pages |-> pages, paged |-> paged]

(* F12 first, second and on a second page; behind too many functions; a    *)
(* controller without it; one that ignores the page register; one with an  *)
(* empty page before F12; one that has F12 twice.                          *)
MCDevices ==
  { Table(<<<<18>>>>, TRUE), Table(<<<<1, 18>>>>, FALSE),
    Table(<<<<1>>, <<17, 18>>>>, TRUE), Table(<<<<1, 84>>, <<17, 18>>>>, TRUE),
    Table(<<<<1, 84>>>>, TRUE), Table(<<<<1>>, <<18>>>>, FALSE),
    Table(<<<<1>>, <<>>, <<18>>>>, TRUE), Table(<<<<18, 18>>>>, TRUE) }
=============================================================================
