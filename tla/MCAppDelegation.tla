-------------------------- MODULE MCAppDelegation ---------------------------
EXTENDS AppDelegation, TLC

CONSTANTS t1, t2, o1, o2, a1, a2, work, both

MCWants == {<<o1, None>>, <<o2, work>>, <<o1, both>>}
MCNamed == work :> {a1} @@ both :> {a1, a2}
=============================================================================
