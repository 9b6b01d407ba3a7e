------------------------------ MODULE AlertLedger ----------------------------
(***************************************************************************)
(* What alerting promises while nobody removes a watch, with no process,   *)
(* connection or queue in sight: a durable ledger that knows of each       *)
(* matching watch and post whether an alert is due or done.                *)
(***************************************************************************)
CONSTANTS Watches, Messages, Hits

VARIABLES
  ledger,  \* ledger[w][m]: "none", "due" or "done"
  told     \* <<w, m>>: the owner of w got the alert about m, or refused it

ledgerVars == <<ledger, told>>

Init ==
  /\ ledger = [w \in Watches |-> [m \in Messages |-> "none"]]
  /\ told = {}

\* The owner hears of a match, perhaps not for the first time.
Tell ==
  /\ \E p \in Hits : told' = told \cup {p}
  /\ UNCHANGED ledger

\* The ledger advances, several alerts at once if need be: an alert becomes
\* due for a match only, and is done for ever once its owner was told.
Record ==
  /\ ledger' \in [Watches -> [Messages -> {"none", "due", "done"}]]
  /\ \A w \in Watches, m \in Messages :
       \/ ledger'[w][m] = ledger[w][m]
       \/ /\ ledger[w][m] = "none"
          /\ ledger'[w][m] = "due"
          /\ <<w, m>> \in Hits
       \/ /\ ledger[w][m] # "done"
          /\ ledger'[w][m] = "done"
          /\ <<w, m>> \in told
  /\ UNCHANGED told

Spec == Init /\ [][Tell \/ Record]_ledgerVars
=============================================================================
