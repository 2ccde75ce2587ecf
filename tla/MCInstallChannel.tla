-------------------------- MODULE MCInstallChannel --------------------------
(* InstallChannel on a small instance. *)
EXTENDS InstallChannel

CONSTANTS i1, i2, g1, s1, r0, r1, r2

TwoCalls == {i1, i2}
OneRunner == {g1}
OneShell == {s1}
ThreeReleases == {r0, r1, r2}

\* Names are interchangeable: r0 is current, r1 previous, i1 is called first, with
\* a new release or for a rollback.  One fault.
Canonical == disk.cur \in {None, r0} /\ disk.prev \in {None, r1}
Ordered ==
    /\ inst[i2].pc # "idle" => inst[i1].pc # "idle"
    /\ inst[i1].plan \in {None, r2, Rollback}
    /\ inst[i2].plan \in {None, r0, Rollback}
OneFault == crashes + fails + drifts <= 1
CanonicalInit == Init /\ Canonical
FairSpec ==
    CanonicalInit /\ [][Next /\ NoSteal' /\ Timely' /\ Ordered' /\ OneFault']_vars /\ Fairness
=============================================================================
