-------------------------- MODULE SharableLocking --------------------------
(***************************************************************************)
(* What a sharable or upgradable mutex promises its clients.  own[t] is    *)
(* the ownership of thread t, or "claiming" or "upgrading" while an        *)
(* exclusive request that keeps later requests out waits for the readers.  *)
(***************************************************************************)
CONSTANT Threads

VARIABLE own

Init == own = [t \in Threads |-> "none"]

\* Every thread but t has an ownership in S.
OthersIn(S, t) == \A u \in Threads \ {t} : own[u] \in S

Become(t, o) == own' = [own EXCEPT ![t] = o]

Share(t) ==
  /\ own[t] = "none" /\ OthersIn({"none", "sharable", "upgradable"}, t)
  /\ Become(t, "sharable")

TakeUpgradable(t) ==
  /\ own[t] \in {"none", "sharable"} /\ OthersIn({"none", "sharable"}, t)
  /\ Become(t, "upgradable")

Claim(t) ==
  /\ OthersIn({"none", "sharable"}, t)
  /\ \/ own[t] = "none" /\ Become(t, "claiming")
     \/ own[t] = "upgradable" /\ Become(t, "upgrading")

\* The claim is withdrawn; an upgrade that fails is an upgradable owner again.
Cancel(t) ==
  \/ own[t] = "claiming" /\ Become(t, "none")
  \/ own[t] = "upgrading" /\ Become(t, "upgradable")

TakeExclusive(t) ==
  /\ own[t] # "exclusive" /\ OthersIn({"none"}, t)
  /\ Become(t, "exclusive")

Release(t) ==
  /\ own[t] \in {"sharable", "upgradable", "exclusive"}
  /\ Become(t, "none")

Downgrade(t) ==
  \/ own[t] = "exclusive" /\ \E o \in {"sharable", "upgradable"} : Become(t, o)
  \/ own[t] = "upgradable" /\ Become(t, "sharable")

Next == \E t \in Threads :
  \/ Share(t) \/ TakeUpgradable(t) \/ Claim(t) \/ Cancel(t)
  \/ TakeExclusive(t) \/ Release(t) \/ Downgrade(t)

Spec == Init /\ [][Next]_own

=============================================================================
