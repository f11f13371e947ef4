--------------------------- MODULE MCCondition8a ---------------------------
EXTENDS Condition8a

\* Waits without a timeout, or notify_all only.
UnmixedClients ==
  { [timed |-> {}, broadcasts |-> {TRUE, FALSE}],
    [timed |-> Waiters, broadcasts |-> {TRUE}] }

\* Timed waits and notify_one.
MixedClients == { [timed |-> Waiters, broadcasts |-> {TRUE, FALSE}] }
=============================================================================
