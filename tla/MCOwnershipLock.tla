-------------------------- MODULE MCOwnershipLock --------------------------
(* Instances of OwnershipLock for TLC. *)
EXTENDS OwnershipLock, TLC

CONSTANTS f1, u1, u2, u3, u4, u5, p1, p2, p3

SixCalls == {f1, u1, u2, u3, u4, u5}
SixOwn == [a \in SixCalls |-> a]
SymSix == Permutations(SixCalls)

\* f1 and u1 are calls of the same process.
FourCalls == {f1, u1, u2, u3}
ThreeProcs == {p1, p2, p3}
SharedFour ==
    [a \in FourCalls |-> IF a \in {f1, u1} THEN p1 ELSE IF a = u2 THEN p2 ELSE p3]

FencedCalls == {f1}
NoFenced == {}

\* The gate's races alone: the calls reach the gate one after the other, and
\* only an owner or a gate holder dies.  Every behaviour is one of Spec.
Approach(a) == Begin(a) \/ WriteClaim(a) \/ Link(a) \/ Inspect(a) \/ Judge(a)
UnderWay == {a \in Attempts : pc[a] \in Loop}
GateRaces ==
    \/ \E a \in Attempts :
         \/ UnderWay \subseteq {a} /\ Approach(a)
         \/ EnterGate(a) \/ JudgeGate(a) \/ RetireGate(a) \/ SettleRetired(a)
         \/ Recheck(a) \/ EndGrace(a) \/ Confirm(a) \/ UnlinkDead(a)
         \/ CheckGate(a) \/ VacateGate(a) \/ Arm(a)
    \/ Tick
    \/ \E a \in Attempts : pc[a] \in {"linked", "entered"} /\ Crash(ProcOf[a])
GateSpec == Init /\ [][GateRaces]_vars

\* Three calls: two of one process and one of another, or each of its own.
Begun == {a \in Attempts : pc[a] # "idle"}
ThreeCalls == ~({u1, u3} \subseteq Begun)
FairSpec == Init /\ [][Next /\ ThreeCalls']_vars /\ Fairness
=============================================================================
