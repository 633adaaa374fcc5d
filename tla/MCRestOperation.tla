--------------------------- MODULE MCRestOperation ---------------------------
(***************************************************************************)
(* Instances of RestOperation for TLC: a scrape, a PDF and the screenshot  *)
(* with the longest script, each waiting for another event.                *)
(***************************************************************************)
EXTENDS RestOperation

ThreeNames == {"DOMContentLoaded", "load", "networkIdle"}

Asked(kind, waitUntil, extras) ==
  [kind |-> kind, waitUntil |-> waitUntil, fullPage |-> extras,
   omitBackground |-> extras, selector |-> extras]

EachKind ==
  {Asked("scrape", "DOMContentLoaded", FALSE),
   Asked("screenshot", "load", TRUE), Asked("pdf", "networkIdle", FALSE)}

Screenshots == {Asked("screenshot", "load", TRUE)}

=============================================================================
