------------------------------- MODULE MCStore -------------------------------
(* Instances of Store for TLC. *)
EXTENDS Store

CONSTANTS web, slash  \* a plain name and one with a slash

Plain(r, w, s) ==
    [checks |-> {web, slash}, retention |-> r,
     override |-> [c \in {web, slash} |-> IF c = web THEN w ELSE s]]

\* Two equal starts, one that raises web and lowers slash, one without slash.
MCConfigs == {Plain(2, 0, 0), Plain(1, 2, 0), [Plain(1, 0, 0) EXCEPT !.checks = {web}]}
MCRawLimits == {-1, 0, 1, 2, Absent, Junk}
=============================================================================
