----------------------------- MODULE ClaimTable -----------------------------
(***************************************************************************)
(* What the upload queue promises the rest of the program, with no         *)
(* channel, no counters and no goroutines: a path is claimed before it can *)
(* be worked on, at most one worker works on it, and it becomes claimable  *)
(* again only once that work has ended or was given up before it began.    *)
(***************************************************************************)
CONSTANTS Paths,      \* the local files a scan may propose
          Workers     \* the goroutines that may run the handler

VARIABLES claimed,    \* paths that cannot be claimed again for now
          running     \* pairs <<worker, path>> whose handler is executing

ctVars == <<claimed, running>>

Busy(p) == \E w \in Workers : <<w, p>> \in running
Engaged(w) == \E p \in Paths : <<w, p>> \in running

Init == claimed = {} /\ running = {}

Claim(p) ==
    /\ p \notin claimed
    /\ claimed' = claimed \cup {p}
    /\ UNCHANGED running

\* The claim is given up before any work: the buffer was full, or uploading
\* was paused when a worker took the path.
Abandon(p) ==
    /\ p \in claimed
    /\ ~Busy(p)
    /\ claimed' = claimed \ {p}
    /\ UNCHANGED running

Start(w, p) ==
    /\ p \in claimed
    /\ ~Busy(p)
    /\ ~Engaged(w)
    /\ running' = running \cup {<<w, p>>}
    /\ UNCHANGED claimed

Finish(w, p) ==
    /\ <<w, p>> \in running
    /\ running' = running \ {<<w, p>>}
    /\ claimed' = claimed \ {p}

Next ==
    \/ \E p \in Paths : Claim(p) \/ Abandon(p)
    \/ \E w \in Workers, p \in Paths : Start(w, p) \/ Finish(w, p)

Spec == Init /\ [][Next]_ctVars
=============================================================================
