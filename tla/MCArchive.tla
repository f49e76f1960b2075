------------------------------ MODULE MCArchive -----------------------------
(* Archive for TLC: the configurations each run starts with, and the bound  *)
(* of the run that checks liveness.                                        *)
EXTENDS Archive, TLC

MCWorkers == Permutations(Workers)

Treat(flag, enable, only, upload) ==
    [flag |-> flag, enable |-> enable, only |-> only, upload |-> upload,
     convert |-> TRUE]

\* "Highlights only", the highlights forced on for the streamer while the
\* global switch is off.
MCForcedOn == {Treat(1, FALSE, TRUE, TRUE)}

\* Each way the two stages treat a streamer: uploaded only, analysed and
\* uploaded, highlights only, highlights only with the global switch off, and
\* highlights only with uploading off.
MCConfigs ==
    {Treat(0, FALSE, FALSE, TRUE), Treat(0, TRUE, FALSE, TRUE),
     Treat(0, TRUE, TRUE, TRUE), Treat(0, TRUE, TRUE, FALSE)} \cup MCForcedOn

\* For liveness, with conversion and without.  With it the case in which both
\* stages go for the same file is left out: each could undo the other's work
\* for as long as time is left open.
MCLive ==
    (MCConfigs \ MCForcedOn) \cup {[c EXCEPT !.convert = FALSE] : c \in MCConfigs}

\* Bound, the action constraint of MCArchiveLive: with conversion the
\* configuration does not change, the process does not crash, the hash file
\* does not fail and nothing is swept (a sweep could take each new MP4 for one
\* past its retention); and conversion stays as it is.
Bounded ==
    /\ config'.convert = config.convert
    /\ config.convert => /\ UNCHANGED <<changes, crashes>>
                         /\ saved' = known'
                         /\ ~ \E f \in Files : Loop(Sweep(f))
=============================================================================
