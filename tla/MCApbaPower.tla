----------------------------- MODULE MCApbaPower -----------------------------
(* Small instances of ApbaPower for TLC.                                   *)
EXTENDS ApbaPower

\* Two images share their first page and differ after it; a third differs
\* on the first page, so the compare heuristic both skips and flashes.
MCImages ==
  { [first |-> "p1", rest |-> "r1"],
    [first |-> "p1", rest |-> "r2"],
    [first |-> "p2", rest |-> "r1"] }

MCPages == {"p1", "p2", "r1", "r2"}

\* Images that differ on their first page: for whole images the compare
\* heuristic is then exact, and only a partly written partition defeats it.
MCDistinctImages ==
  { [first |-> "p1", rest |-> "r1"],
    [first |-> "p2", rest |-> "r2"] }

\* "apba" is a partition of the APBA flash; "boot" is a name with no MTD device.
MCParts == {"apba", "boot"}
MCMtdParts == {"apba"}
=============================================================================
