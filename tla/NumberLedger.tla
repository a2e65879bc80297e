----------------------------- MODULE NumberLedger -----------------------------
(***************************************************************************)
(* What the table of transaction numbers promises, with no table, pool,    *)
(* engine or builder in it: a number is given to a transaction by its      *)
(* submission and by nothing else; it may be taken away and may be put     *)
(* back; and a step concerns one transaction, except that all records may  *)
(* be lost at once.  0 stands for "a number was asked for and there was    *)
(* none".                                                                  *)
(***************************************************************************)
EXTENDS Integers

CONSTANTS
    TxHashes,
    None,
    Numbers    \* the numbers a submission may be given

VARIABLES
    number,   \* tx -> the number on record, or None
    given     \* tx -> the numbers its submissions were given

ledgerVars == <<number, given>>

Init ==
    /\ number = [t \in TxHashes |-> None]
    /\ given = [t \in TxHashes |-> {}]

\* A submission of t is given number n.
Give(t, n) ==
    /\ number' = [number EXCEPT ![t] = n]
    /\ given' = [given EXCEPT ![t] = @ \cup {n}]

\* A number given to t earlier, or 0, is put on record.
Restore(t) ==
    /\ \E n \in given[t] \cup {0} : number' = [number EXCEPT ![t] = n]
    /\ UNCHANGED given

\* The record of t is taken away.
Take(t) ==
    /\ number' = [number EXCEPT ![t] = None]
    /\ UNCHANGED given

\* The process ends and every record with it; what was given stays given.
Lose ==
    /\ number' = [t \in TxHashes |-> None]
    /\ UNCHANGED given

Next ==
    \/ \E t \in TxHashes : (\E n \in Numbers : Give(t, n)) \/ Restore(t) \/ Take(t)
    \/ Lose

Spec == Init /\ [][Next]_ledgerVars
==============================================================================
