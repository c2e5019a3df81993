----------------------------- MODULE AluService -----------------------------
(***************************************************************************)
(* What the bench promises, without clock, pins or pipeline: items come    *)
(* one at a time; an operation is seen once by the scoreboard, then        *)
(* answered, and what was seen is checked before the next one is seen.     *)
(***************************************************************************)
EXTENDS ALU_pkg

CONSTANTS Command,        \* the items
          NoCommand       \* none yet

VARIABLES stage,          \* of the item: "none", "accepted", or "seen"
          item,           \* the item in progress, or the last one
          answer,         \* what was returned last
          unchecked       \* what the scoreboard has seen and not checked

serviceVars == <<stage, item, answer, unchecked>>

Nothing == {}

ServiceInit ==
  /\ stage = "none" /\ item = NoCommand
  /\ answer = 0
  /\ unchecked = Nothing

Accept(c) ==
  /\ stage = "none"
  /\ stage' = "accepted" /\ item' = c
  /\ UNCHANGED <<answer, unchecked>>

\* The scoreboard sees an operation, the last one having been checked.
See ==
  /\ stage = "accepted" /\ item.op \in RealOp
  /\ unchecked = Nothing
  /\ stage' = "seen"
  /\ unchecked' = {item}
  /\ UNCHANGED <<item, answer>>

\* The sequence gets the result of the operation it sent.
Answer ==
  /\ stage = "seen"
  /\ stage' = "none"
  /\ answer' = predict_result(item)
  /\ UNCHANGED <<item, unchecked>>

\* An operation without a result: no_op returns 0, rst_op what was there.  Both
\* outlast the check of the operation before.
Skip ==
  /\ stage = "accepted" /\ item.op \notin RealOp
  /\ unchecked = Nothing
  /\ stage' = "none"
  /\ answer' = IF item.op = no_op THEN 0 ELSE answer
  /\ UNCHANGED <<item, unchecked>>

\* The result reaches the scoreboard and is the predicted one.  It does so
\* after the answer, so while an operation is being worked on nothing older is
\* left to check.
Check ==
  /\ stage # "seen"
  /\ unchecked # Nothing
  /\ unchecked' = Nothing
  /\ UNCHANGED <<stage, item, answer>>

Work == See \/ Answer \/ Skip \/ Check

ServiceNext == (\E c \in Command : Accept(c)) \/ Work

\* The safety part, and with it that what was begun is ended.
ServiceSafety == ServiceInit /\ [][ServiceNext]_serviceVars
ServiceSpec == ServiceSafety /\ WF_serviceVars(Work)
=============================================================================
