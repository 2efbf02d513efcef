--------------------------- MODULE FindingLedger ---------------------------
(***************************************************************************)
(* What the reader of a report relies on: of all the findings the rules    *)
(* made, the recommendations of the report cover the worst ones, each once *)
(* and the worst first, and no more are left out than the limit demands.   *)
(***************************************************************************)
EXTENDS Naturals, Sequences

CONSTANTS
    Limit,      \* how many findings a report covers at most
    Findings    \* the findings there can be: records with an id and a severity

VARIABLES
    phase,      \* "collecting", then "published" or "abandoned"
    ledger,     \* the findings made so far
    covered     \* the findings the report recommends something for, in its order

ledgerVars == <<phase, ledger, covered>>

Init ==
    /\ phase = "collecting"
    /\ ledger = {}
    /\ covered = <<>>

\* Findings are added, under ids that no other finding has.
Enter ==
    /\ phase = "collecting"
    /\ phase' = "collecting"
    /\ ledger' \subseteq Findings
    /\ ledger \subseteq ledger'
    /\ \A f, g \in ledger' : f.id = g.id => f = g
    /\ covered' = covered

\* The worst findings of a set, up to the limit, the worst first.
Covers(seq, set) ==
    LET range == {seq[i] : i \in DOMAIN seq}
    IN  /\ range \subseteq set
        /\ \A i, j \in DOMAIN seq : seq[i] = seq[j] => i = j
        /\ Len(seq) <= Limit
        /\ Len(seq) = Limit \/ range = set
        /\ \A i, j \in DOMAIN seq : i < j => seq[i].severity >= seq[j].severity
        /\ \A f \in set \ range, g \in range : f.severity <= g.severity

\* The report appears, for the findings that the ledger has by then.
Publish ==
    /\ phase = "collecting"
    /\ phase' = "published"
    /\ ledger' = ledger
    /\ Covers(covered', ledger)

\* The job fails, and its findings with it.
Abandon ==
    /\ phase = "collecting"
    /\ phase' = "abandoned"
    /\ UNCHANGED <<ledger, covered>>

Next == Enter \/ Publish \/ Abandon

Spec == Init /\ [][Next]_ledgerVars

=============================================================================
