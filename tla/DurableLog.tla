----------------------------- MODULE DurableLog -----------------------------
(***************************************************************************)
(* What the catalog store promises its callers: the ops it holds form a    *)
(* log; a committed prefix of it is promised; a crash may take back ops    *)
(* that were never promised, from the end of the log, and nothing else.    *)
(***************************************************************************)
EXTENDS Naturals, Sequences, SequencesExt

CONSTANT Op

VARIABLES log, promised

vars == <<log, promised>>

Init == log = <<>> /\ promised = <<>>

\* A batch is applied, in order.
Submit == /\ UNCHANGED promised
          /\ Len(log) < Len(log') /\ IsPrefix(log, log')
          /\ log' \in Seq(Op)

\* Everything applied so far is acknowledged.
Promise == promised' = log /\ UNCHANGED log

\* A crash: what was not acknowledged may go, from its end.
Lose == /\ UNCHANGED promised
        /\ IsPrefix(log', log) /\ IsPrefix(promised, log')

Next == Submit \/ Promise \/ Lose

Spec == Init /\ [][Next]_vars
=============================================================================
