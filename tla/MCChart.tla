------------------------------ MODULE MCChart ------------------------------
(* A chart with three levels: out, and P with the substates c and Q, which  *)
(* contains a and b.  P keeps a deep history.  There are one-shot timers on *)
(* an outer and on an inner state, a periodic one, deferral declared by a   *)
(* leaf and by a composite state, guards on the register, an internal and a *)
(* completion (anonymous) transition.                                       *)
EXTENDS ChartMachine

MCStateOrder == <<"out", "P", "Q", "a", "b", "c">>
MCParent     == [s \in {"Q", "a", "b", "c"} |-> IF s \in {"Q", "c"} THEN "P" ELSE "Q"]
MCInitialSub == [s \in {"P", "Q"} |-> IF s = "P" THEN "Q" ELSE "a"]
MCStates == Range(MCStateOrder)
MCDelay == [e \in {"after2", "after3", "every2"} |-> IF e = "after3" THEN 3 ELSE 2]
MCDefers == [s \in MCStates |-> CASE s = "out" -> {"next"}
                                  [] s = "Q"   -> {"resume"}
                                  [] OTHER     -> {}]
MCMaxStay == [s \in {"b"} |-> 1]

T(src, evt, dst, kind, flagged, priority) ==
  [src |-> src, evt |-> evt, dst |-> dst, kind |-> kind, flag |-> flagged, priority |-> priority]

MCTransitions == <<
  T("Q",   "next",      "c",   "external", FALSE, 2),
  T("a",   "next",      "b",   "external", TRUE,  1),
  T("a",   "after2",    "b",   "external", FALSE, 0),
  T("P",   "after3",    "out", "external", FALSE, 0),
  T("b",   "every2",    "b",   "internal", FALSE, 0),
  T("c",   "after2",    "c",   "external", TRUE,  0),
  T("c",   "anonymous", "Q",   "external", TRUE,  0),
  T("P",   "stop",      "out", "external", FALSE, 0),
  T("out", "resume",    "P",   "external", FALSE, 0) >>

\* The chart's constants, evaluated once.
MCWithin == [s \in MCStates |-> {p \in MCStates : p \in Around[s]}]
MCRows   == Table
=============================================================================
