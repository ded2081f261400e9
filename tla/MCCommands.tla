----------------------------- MODULE MCCommands -----------------------------
(* Values for the constants of Commands. *)
EXTENDS Commands

\* One command of each kind that an executor distinguishes.
MCRequests ==
  (DataCommands \ {"ADD", "ADDQ", "REPLACE", "REPLACEQ", "PREPEND", "PREPENDQ",
                   "DECREMENT", "DECREMENTQ"})
    \cup (StreamCommands \ (TapMessages \ {"TAP_MUTATION", "TAP_DELETE"}))
    \cup AdminCommands

MCArg(cmd) ==
  CASE cmd \in AppendCommands -> {"plain", "cas", "compressed"}
    [] cmd \in SubdocCommands -> {"plain", "cas", "mkdoc"}
    [] cmd \in ArithmeticCommands -> {"plain", "cas"}
    [] cmd \in TapMessages -> {"plain", "ack", "expired"}
    [] OTHER -> {"plain"}

=============================================================================
